---- MODULE Spec2Model ----
(***************************************************************************)
(* ConsultAI deliberation core: the Request Client (APIClient: retry loop, *)
(* parallel fan-out) and the Deliberation Engine (DeliberationManager:     *)
(* round loop, transcript, consensus check, finalization).                 *)
(*                                                                         *)
(* Coroutines are modelled at their suspension points.  A step of the      *)
(* model is the code that runs between two awaits of one coroutine.        *)
(***************************************************************************)
EXTENDS Integers, Sequences, FiniteSets, TLC

(***************************************************************************)
(* Bounds of the model.                                                    *)
(***************************************************************************)
MaxRetries == 3        \* largest max_retries explored for a client driven directly
MaxAgents == 2         \* largest roster explored
MaxRounds == 2         \* largest max_rounds explored
MaxPrompts == 2        \* largest batch handed directly to make_parallel_requests
MaxConfidenceLen == 2  \* longest text after "confidence:" explored exhaustively
MaxTranscript == 3     \* longest transcript handed to the consensus check directly
MaxPoints == 2         \* longest key-point list handed to the agreement score directly
MaxMemorySize == 1     \* largest memory_size of an agent explored
MaxResponds == 3       \* most generate_response calls made on one agent

(***************************************************************************)
(* Program constants.                                                      *)
(***************************************************************************)
DefaultMaxConcurrent == 3     \* APIClient.__init__(max_concurrent=3)
ConfigMaxRetries == 3         \* API_CONFIG["max_retries"]
ConfigRetryDelay == 1         \* API_CONFIG["retry_delay"]
Precision == 53               \* significand bits of a Python float
HistoryTail == 5              \* self.conversation_history[-5:]

VARIABLES
  \* ---- APIClient ----
  max_retries,         \* api_config["max_retries"]
  retry_delay,         \* api_config["retry_delay"]
  max_concurrent,      \* APIClient.max_concurrent (capacity of self.semaphore)
  tasks,               \* coroutines of the running call, in gather order
  completion_order,    \* indices of tasks in the order in which they finished
  request_counts,      \* APIClient.request_counts
  error_counts,        \* APIClient.error_counts
  request_times,       \* len(APIClient.request_times)
  backend_attempts,    \* backend requests answered or failed so far
  call,                \* the running client call of the client specification
  last_return,         \* value returned by the last finished client call
  \* ---- DeliberationManager ----
  pc,                  \* position of run_deliberation
  agents,              \* roster: sequence of role names
  engine_max_concurrent, \* DeliberationManager.max_concurrent
  max_rounds,          \* argument of run_deliberation
  round_num,           \* loop variable of run_deliberation
  speaking,            \* speaking_agents of the running round (roster indices)
  conversation_history,\* the transcript
  consensus_reached,   \* DeliberationManager.consensus_reached
  confidence_tracker,  \* DeliberationManager.confidence_tracker, in insertion order
  checks_done,         \* number of loop-level consensus checks completed
  reordered,           \* the requests of the last round finished out of dispatch order
  loop_exit,           \* how the round loop ended: "none", "break", "exhausted"
  results,             \* the result dictionary of run_deliberation
  \* ---- functions called on their own ----
  unit,                \* a direct call of _calculate_agreement_score and its result
  \* ---- EnhancedAgent ----
  memory_size,         \* EnhancedAgent.memory_size
  memories,            \* EnhancedAgent.memories
  clock,               \* time.time() of the last reading
  \* ---- run_pipeline ----
  pipeline_args,       \* the arguments run_pipeline was called with
  pipeline_pc,         \* position of run_pipeline
  inputs_read,         \* number of answers input() has returned
  pipeline_return      \* what run_pipeline returned

clientVars == <<max_retries, retry_delay, max_concurrent, tasks, completion_order,
                request_counts, error_counts, request_times, backend_attempts>>
callVars == <<call, last_return>>
engineVars == <<pc, agents, engine_max_concurrent, max_rounds, round_num, speaking,
                conversation_history, consensus_reached, confidence_tracker,
                checks_done, reordered, loop_exit, results>>
agentVars == <<memory_size, memories, clock>>
pipelineVars == <<pipeline_args, pipeline_pc, inputs_read, pipeline_return>>
vars == <<clientVars, callVars, engineVars, unit, agentVars, pipelineVars>>

(***************************************************************************)
(* Values.                                                                 *)
(***************************************************************************)
\* Texts the backend can answer with.  TextA and TextB both carry a
\* "recommendation" section; ErrorMarker is the "[Error: ...]" content.
TextA == "Recommendation: continue treatment"
TextB == "Recommendation: stop treatment"
ErrorMarker == "[Error]"
Texts == {TextA, TextB}

\* Exceptions the backend call can raise, by the spec's taxonomy.
TransientKinds == {"rate_limit"}
TerminalKinds == {"auth"}
BackendErrors == TransientKinds \cup TerminalKinds

\* The exception raised inside _process_response by the cost lookup.
KeyError == "KeyError"

\* Model identifiers: one present in TOKEN_CONFIG, one absent from it.
KnownModel == "gpt-4.1-nano"
UnknownModel == "gpt-unlisted"
TOKEN_CONFIG == {KnownModel}

NoPrompt == [kind |-> "none", round |-> 0, slot |-> 0, agent |-> 0, history |-> <<>>]

\* A piece of response text; re is the prompt the text was written for.
Content(text, prompt) == [text |-> text, re |-> prompt]

\* A Response dictionary.
Response(text, err, prompt) ==
  [kind |-> "response", content |-> Content(text, prompt), error |-> err]

\* Python's None, returned when the retry loop body never runs.
None == [kind |-> "None", content |-> Content("", NoPrompt), error |-> "None"]

\* An exception escaping to the caller.
Raised(exc) == [kind |-> "raised", content |-> Content("", NoPrompt), error |-> exc]

IsErrorTagged(r) == r.kind = "response" /\ r.error # "None"

RECURSIVE SetToSeq(_)
SetToSeq(S) == IF S = {} THEN <<>>
               ELSE LET x == CHOOSE y \in S : TRUE IN <<x>> \o SetToSeq(S \ {x})

Min(a, b) == IF a < b THEN a ELSE b

(***************************************************************************)
(* Python floats (IEEE 754 binary64) as far as the program uses them:      *)
(* finite numbers neg * m * 2^e with m a significand of Precision bits,    *)
(* and every operation rounded to nearest, ties to even.  A float holds    *)
(* its significand as two numbers, hi the upper 26 bits and lo the lower   *)
(* 27, and 0.0 has the significand 0.  The operations work on numbers      *)
(* written in digits of 16 bits, most significant first.  Operands are     *)
(* bound through singleton sets, which evaluates each of them once however *)
(* often the body uses it.                                                 *)
(***************************************************************************)
Zero == [neg |-> FALSE, e |-> 0, hi |-> 0, lo |-> 0]

\* The number of bits of a digit v, 0 < v < 2^16.
BitLength(v) == CHOOSE k \in 1..16 : 2^(k - 1) <= v /\ v < 2^k

\* The w <= 16 bits of the significand of x from bit p up, bit 0 the least
\* significant one; the bits below bit 0 and above the significand are 0.
Field(x, p, w) ==
  IF p + w <= 0 \/ p >= Precision THEN 0
  ELSE IF p < 0 THEN (x.lo % 2^(w + p)) * 2^(0 - p)
  ELSE IF p + w <= 27 THEN (x.lo \div 2^p) % 2^w
  ELSE IF p >= 27 THEN (x.hi \div 2^(p - 27)) % 2^w
  ELSE (x.lo \div 2^p) + (x.hi % 2^(p + w - 27)) * 2^(27 - p)

\* The float nearest to (digits + f) * 2^e, where digits is read as a
\* natural number and 0 < f < 1 if sticky, f = 0 otherwise.  From the first
\* digit that is not 0 on, the digits are shifted left until the leading bit
\* is the top bit of a digit: the first 53 bits are the significand, the
\* next bit and whether anything follows it decide the rounding.
RoundToFloat(neg, digits0, sticky, e) ==
  CHOOSE r \in
    {IF \A i \in 1..Len(digits) : digits[i] = 0 THEN Zero
     ELSE CHOOSE w \in
      {CHOOSE x \in
       {CHOOSE y \in
          {CHOOSE z \in
             {IF ~(round = 1 /\ (rest \/ lo % 2 = 1))
              THEN [neg |-> neg, e |-> exponent, hi |-> hi, lo |-> lo]
              ELSE IF lo + 1 < 2^27
              THEN [neg |-> neg, e |-> exponent, hi |-> hi, lo |-> lo + 1]
              ELSE IF hi + 1 < 2^26
              THEN [neg |-> neg, e |-> exponent, hi |-> hi + 1, lo |-> 0]
              ELSE [neg |-> neg, e |-> exponent + 1, hi |-> 2^25, lo |-> 0] :
                hi \in {t[1] * 2^10 + (t[2] \div 2^6)},
                lo \in {(t[2] % 2^6) * 2^21 + t[3] * 2^5 + (t[4] \div 2^11)},
                round \in {(t[4] \div 2^10) % 2},
                rest \in {\/ sticky
                          \/ t[4] % 2^10 # 0
                          \/ \E i \in (first + 4)..Len(digits) :
                               IF i = first + 4 THEN digits[i] % 2^(16 - shift) # 0
                               ELSE digits[i] # 0},
                exponent \in {e + 16 * (Len(digits) - first) + (16 - shift)
                                - Precision}} : TRUE :
             t \in {[i \in 1..4 |->
                      LET this == IF first + i - 1 <= Len(digits)
                                  THEN digits[first + i - 1] ELSE 0
                          next == IF first + i <= Len(digits)
                                  THEN digits[first + i] ELSE 0
                      IN ((this * 2^shift) % 2^16) + (next \div 2^(16 - shift))]}} : TRUE :
          shift \in {16 - BitLength(digits[first])}} : TRUE :
       first \in {CHOOSE i \in 1..Len(digits) :
                    digits[i] # 0 /\ \A j \in 1..(i - 1) : digits[j] = 0}} : TRUE :
       digits \in {digits0}} : TRUE

\* float(k) for an integer k.
FromInt(k) ==
  IF k < 0 THEN RoundToFloat(TRUE, <<(0 - k) \div 2^16, (0 - k) % 2^16>>, FALSE, 0)
  ELSE RoundToFloat(FALSE, <<k \div 2^16, k % 2^16>>, FALSE, 0)

\* Long division of the natural number digits by n < 2^15 from digit i on,
\* r the remainder so far: the quotient digits and the final remainder.
RECURSIVE LongDivision(_, _, _, _)
LongDivision(digits, n, i, r) ==
  IF i > Len(digits) THEN [q |-> <<>>, r |-> r]
  ELSE CHOOSE d \in
    {CHOOSE step \in
       {[q |-> <<c \div n>> \o rest.q, r |-> rest.r] :
          rest \in {LongDivision(digits, n, i + 1, c % n)}} : TRUE :
       c \in {r * 2^16 + digits[i]}} : TRUE

\* x / n for a float x and a positive integer n < 2^15: the significand
\* with 27 further bits after it (80 bits, five digits) is divided, which
\* leaves the quotient more significant bits than a float keeps, and the
\* remainder makes it inexact.
FloatDivInt(x0, n) ==
  CHOOSE r \in
    {IF x.hi = 0 \/ n = 1 THEN x
     ELSE CHOOSE y \in
       {RoundToFloat(x.neg, d.q, d.r # 0, x.e - 27) :
          d \in {LongDivision(dividend, n, 1, 0) :
                   dividend \in {[i \in 1..5 |-> Field(x, 16 * (5 - i) - 27, 16)]}}} : TRUE :
       x \in {x0}} : TRUE

\* k / n for integers k and n > 0, as Python divides two ints.
IntDiv(k, n) == FloatDivInt(FromInt(k), n)

\* digits1 + digits2 for two naturals of the same length: digit i takes the
\* carry that some lower digit j generates and the digits between pass on.
AddDigits(digits1, digits2) ==
  LET carry(i) == \E j \in (i + 1)..Len(digits1) :
                    /\ digits1[j] + digits2[j] >= 2^16
                    /\ \A k \in (i + 1)..(j - 1) : digits1[k] + digits2[k] = 2^16 - 1
      digits == [i \in 1..Len(digits1) |->
                   (digits1[i] + digits2[i] + (IF carry(i) THEN 1 ELSE 0)) % 2^16]
  IN IF carry(0) THEN <<1>> \o digits ELSE digits

\* x + y for floats x, y >= 0.  An operand more than 55 binary places below
\* the other is less than a quarter of its last place and rounds away;
\* otherwise both are written in seven digits over the lower exponent.
FloatAdd(x0, y0) ==
  CHOOSE r \in
    {IF x.hi = 0 THEN y
     ELSE IF y.hi = 0 THEN x
     ELSE IF x.e - y.e > 55 THEN x
     ELSE IF y.e - x.e > 55 THEN y
     ELSE CHOOSE z \in
       {RoundToFloat(FALSE, AddDigits(a, b), FALSE, Min(x.e, y.e)) :
          a \in {[i \in 1..7 |-> Field(x, 16 * (7 - i) - (x.e - Min(x.e, y.e)), 16)]},
          b \in {[i \in 1..7 |-> Field(y, 16 * (7 - i) - (y.e - Min(x.e, y.e)), 16)]}} : TRUE :
       x \in {x0}, y \in {y0}} : TRUE

\* |a| > |b| for non-zero floats: the exponents decide, then the
\* significands.
MagnitudeGreater(a, b) ==
  \/ a.e > b.e
  \/ /\ a.e = b.e
     /\ (a.hi > b.hi \/ (a.hi = b.hi /\ a.lo > b.lo))

\* x > y for floats.
FloatGreater(x, y) ==
  \E a \in {x}, b \in {y} :
    IF a.hi = 0 THEN b.hi # 0 /\ b.neg
    ELSE IF b.hi = 0 THEN ~a.neg
    ELSE IF a.neg # b.neg THEN b.neg
    ELSE IF a.neg THEN MagnitudeGreater(b, a) ELSE MagnitudeGreater(a, b)
One == FromInt(1)

RECURSIVE Pow2(_)
Pow2(n) == IF n = 0 THEN 1 ELSE 2 * Pow2(n - 1)

(***************************************************************************)
(* APIClient: the retry loop of generate_response_async (mode "async")     *)
(* and generate_response (mode "sync").                                    *)
(***************************************************************************)

\* The delay slept after failed attempt number attempt:
\* asyncio.sleep(retry_delay * (2 ** attempt)) in the asynchronous path,
\* time.sleep(retry_delay) in the synchronous path.
BackoffDelay(mode, attempt) ==
  IF mode = "async" THEN retry_delay * Pow2(attempt) ELSE retry_delay

\* An except clause that lets everything but transient errors through.
CaughtOnlyTransient(exc) == exc \in TransientKinds

\* "except Exception": every exception raised in the try body is caught.
Caught(exc) == TRUE

\* A retry loop that gives up at once on a terminal error.
ReturnsErrorOnTerminal(exc, attempt) ==
  exc \in TerminalKinds \/ attempt = max_retries - 1

\* A retry loop that makes one attempt more than max_retries.
ReturnsErrorOneLate(exc, attempt) == attempt = max_retries

\* Whether the except branch returns the error: only after the last attempt
\* of range(max_retries), whatever the exception is.
ReturnsError(exc, attempt) == attempt = max_retries - 1

\* An error handler that re-raises instead of tagging.
_handle_error_reraise(exc, prompt) == Raised(exc)

\* _handle_error: the tagged failure Response.
_handle_error(exc, prompt) == Response(ErrorMarker, exc, prompt)

\* A coroutine of generate_response_async / generate_response right after it
\* ran to its first suspension: the first backend request is out, unless
\* range(max_retries) is empty and the function falls off its end.
NewTask(prompt, model, mode) ==
  [prompt |-> prompt, model |-> model, mode |-> mode,
   st |-> IF max_retries = 0 THEN "done" ELSE "inflight",
   attempt |-> 0,         \* the loop variable
   e |-> "None",          \* the exception bound by the except clause
   answered |-> FALSE,    \* the backend has answered an attempt successfully
   delays |-> <<>>,       \* every delay slept so far
   result |-> None]

\* Number of backend requests in flight.
InFlight == Cardinality({i \in 1..Len(tasks) : tasks[i].st = "inflight"})

\* The exception, if any, that the try body raises for backend outcome o of
\* task t: the backend's own error, or the KeyError of
\* self.token_config[response.model] in _process_response.
TryBodyException(t, o) ==
  IF o \in BackendErrors THEN o
  ELSE IF t.model \notin TOKEN_CONFIG THEN KeyError
  ELSE "None"

\* _process_response records the request before it looks the model up.
ProcessResponseCounted(o) == o \in Texts

\* The backend answers the request of task i with outcome o; the task runs
\* to its next suspension or to its return.
BackendReturn(i, o) ==
  /\ i \in 1..Len(tasks)
  /\ tasks[i].st = "inflight"
  /\ LET t == tasks[i]
         exc == TryBodyException(t, o)
         seen == [t EXCEPT !.e = exc, !.answered = @ \/ o \in Texts]
         processed == IF ProcessResponseCounted(o) THEN 1 ELSE 0
     IN
       IF exc = "None"
       THEN \* return self._process_response(response, start_time)
            /\ tasks' = [tasks EXCEPT ![i] =
                 [seen EXCEPT !.st = "done",
                                !.result = Response(o, "None", t.prompt)]]
            /\ completion_order' = Append(completion_order, i)
            /\ request_counts' = request_counts + 1
            /\ request_times' = request_times + 1
            /\ error_counts' = error_counts
       ELSE IF ~Caught(exc)
       THEN \* the exception leaves the coroutine
            /\ tasks' = [tasks EXCEPT ![i] =
                 [seen EXCEPT !.st = "done", !.result = Raised(exc)]]
            /\ completion_order' = Append(completion_order, i)
            /\ request_counts' = request_counts + processed
            /\ request_times' = request_times + processed
            /\ error_counts' = error_counts
       ELSE IF ReturnsError(exc, t.attempt)
       THEN \* return self._handle_error(e, start_time)
            /\ tasks' = [tasks EXCEPT ![i] =
                 [seen EXCEPT !.st = "done",
                                !.result = _handle_error(exc, t.prompt)]]
            /\ completion_order' = Append(completion_order, i)
            /\ request_counts' = request_counts + processed + 1
            /\ request_times' = request_times + processed + 1
            /\ error_counts' = error_counts + 1
       ELSE \* sleep, then the next iteration of the loop
            /\ tasks' = [tasks EXCEPT ![i] =
                 [seen EXCEPT !.st = "sleeping",
                                !.delays = Append(@, BackoffDelay(t.mode, t.attempt))]]
            /\ completion_order' = completion_order
            /\ request_counts' = request_counts + processed
            /\ request_times' = request_times + processed
            /\ error_counts' = error_counts
  /\ backend_attempts' = backend_attempts + 1
  /\ UNCHANGED <<max_retries, retry_delay, max_concurrent>>
  /\ UNCHANGED <<callVars, engineVars, unit, agentVars, pipelineVars>>

\* The sleep of task i ends; the loop issues the next backend request.
RetryWake(i) ==
  /\ i \in 1..Len(tasks)
  /\ tasks[i].st = "sleeping"
  /\ tasks' = [tasks EXCEPT ![i] =
       [@ EXCEPT !.st = "inflight", !.attempt = @ + 1, !.e = "None"]]
  /\ UNCHANGED <<max_retries, retry_delay, max_concurrent, completion_order,
                 request_counts, error_counts, request_times, backend_attempts>>
  /\ UNCHANGED <<callVars, engineVars, unit, agentVars, pipelineVars>>

\* make_parallel_requests: one generate_response_async coroutine per prompt,
\* in prompt order, with the model of _prepare_request_details.  The event
\* loop starts the coroutines in creation order before it polls for I/O, so
\* all first requests are out when the caller suspends in gather.
make_parallel_requests(prompts, model) ==
  [i \in 1..Len(prompts) |-> NewTask(prompts[i], model, "async")]

\* A wait that gives up on the siblings as soon as one awaitable has failed.
gather_ready_first_failure(ts) ==
  \/ \A i \in 1..Len(ts) : ts[i].st = "done"
  \/ \E i \in 1..Len(ts) : ts[i].st = "done" /\ ts[i].result.error # "None"

\* A wait that resumes its caller as soon as one awaitable has finished.
gather_ready_first_completed(ts) == \E i \in 1..Len(ts) : ts[i].st = "done"

\* asyncio.gather resumes its caller when every awaitable has finished.
gather_ready(ts) == \A i \in 1..Len(ts) : ts[i].st = "done"

\* A collection of the results in the order in which they arrived.
gather_as_completed(ts, order) == [i \in 1..Len(order) |-> ts[order[i]].result]

\* asyncio.gather returns the results in the order of the awaitables.
gather(ts, order) == [i \in 1..Len(ts) |-> ts[i].result]

(***************************************************************************)
(* The Request Client driven directly: send (make_request or               *)
(* generate_response_async), its synchronous twin generate_response, and   *)
(* send_many (make_parallel_requests).                                     *)
(***************************************************************************)
Idle == [kind |-> "idle", n |-> 0]

DirectPrompt(i) == [kind |-> "direct", round |-> 0, slot |-> i, agent |-> 0]

Models == {KnownModel, UnknownModel}

\* make_request / generate_response_async, or generate_response when mode is
\* "sync": one coroutine (or one blocking call) running the retry loop.
CallSend(mode, model) ==
  /\ call.kind = "idle"
  /\ tasks' = <<NewTask(DirectPrompt(1), model, mode)>>
  /\ completion_order' = <<>>
  /\ call' = [kind |-> IF mode = "sync" THEN "send_sync" ELSE "send", n |-> 1]
  /\ last_return' = <<>>
  /\ UNCHANGED <<max_retries, retry_delay, max_concurrent, request_counts,
                 error_counts, request_times, backend_attempts>>
  /\ UNCHANGED <<engineVars, unit, agentVars, pipelineVars>>

\* make_parallel_requests with n prompts.
CallSendMany(n, model) ==
  /\ call.kind = "idle"
  /\ tasks' = make_parallel_requests([i \in 1..n |-> DirectPrompt(i)], model)
  /\ completion_order' = <<>>
  /\ call' = [kind |-> "send_many", n |-> n]
  /\ last_return' = <<>>
  /\ UNCHANGED <<max_retries, retry_delay, max_concurrent, request_counts,
                 error_counts, request_times, backend_attempts>>
  /\ UNCHANGED <<engineVars, unit, agentVars, pipelineVars>>

\* The call returns to its caller: the single Response of a send, or the
\* gathered list of a send_many.
CallReturn ==
  /\ call.kind \notin {"idle", "returned"}
  /\ gather_ready(tasks)
  /\ last_return' = gather(tasks, completion_order)
  /\ tasks' = <<>>
  /\ completion_order' = <<>>
  /\ call' = [kind |-> "returned", n |-> call.n]
  /\ UNCHANGED <<max_retries, retry_delay, max_concurrent, request_counts,
                 error_counts, request_times, backend_attempts>>
  /\ UNCHANGED <<engineVars, unit, agentVars, pipelineVars>>

\* What the backend can do with a request of the client specification: answer
\* it, or fail with a transient or a terminal error.
Outcomes == {TextA} \cup BackendErrors

\* Capacities the client is constructed with: a cap of one, and the default.
ClientCaps == {1, DefaultMaxConcurrent}

\* The engine of the client specification is never started.
EngineIdle ==
  /\ pc = "IDLE"
  /\ agents = <<>>
  /\ engine_max_concurrent = DefaultMaxConcurrent
  /\ max_rounds = 0
  /\ round_num = 0
  /\ speaking = <<>>
  /\ conversation_history = <<>>
  /\ consensus_reached = FALSE
  /\ confidence_tracker = <<>>
  /\ checks_done = 0
  /\ reordered = FALSE
  /\ loop_exit = "none"
  /\ results = [rounds |-> <<>>, final_consensus |-> [kind |-> "unset"],
                performance_metrics |-> [kind |-> "unset"]]

\* No function is called on its own.
NoUnitCall == unit = [step |-> "none", points1 |-> <<>>, points2 |-> <<>>, score |-> Zero]

\* No agent is constructed.
NoAgent ==
  /\ memory_size = 0
  /\ memories = <<>>
  /\ clock = 0

\* run_pipeline is not called.
NoPipelineArgs ==
  [roles |-> <<>>, max_rounds |-> 0, max_concurrent |-> 0, require_confirmation |-> FALSE]
NoPipeline ==
  /\ pipeline_args = NoPipelineArgs
  /\ pipeline_pc = "none"
  /\ inputs_read = 0
  /\ pipeline_return = [status |-> "none"]

ClientFresh ==
  /\ retry_delay = ConfigRetryDelay
  /\ tasks = <<>>
  /\ completion_order = <<>>
  /\ request_counts = 0
  /\ error_counts = 0
  /\ request_times = 0
  /\ backend_attempts = 0
  /\ call = Idle
  /\ last_return = <<>>

InitClient ==
  /\ max_retries \in 0..MaxRetries
  /\ max_concurrent \in ClientCaps
  /\ ClientFresh
  /\ EngineIdle
  /\ NoUnitCall
  /\ NoAgent
  /\ NoPipeline

NextClient ==
  \/ \E mode \in {"async", "sync"}, model \in Models : CallSend(mode, model)
  \/ \E n \in 1..MaxPrompts, model \in Models : CallSendMany(n, model)
  \/ \E i \in 1..MaxPrompts, o \in Outcomes : BackendReturn(i, o)
  \/ \E i \in 1..MaxPrompts : RetryWake(i)
  \/ CallReturn

SpecClient == InitClient /\ [][NextClient]_vars

(***************************************************************************)
(* Exact rational numbers, <<n, d>> standing for n/d: the arithmetic the   *)
(* properties are stated in.                                               *)
(***************************************************************************)
Rat(n, d) == <<n, d>>
RatAdd(x, y) ==
  CHOOSE r \in {<<a[1] * b[2] + b[1] * a[2], a[2] * b[2]>> : a \in {x}, b \in {y}} : TRUE
RatDiv(x, k) == CHOOSE r \in {<<a[1], a[2] * k>> : a \in {x}} : TRUE
RatGreater(x, y) == \E a \in {x}, b \in {y} : a[1] * b[2] > b[1] * a[2]

(***************************************************************************)
(* Response texts of consensus detection.                                  *)
(***************************************************************************)
\* Three responses whose "recommendation" paragraphs have nine words each
\* and differ in the last word only: any two of them share 8 words of 10.
TextX == "Recommendation: continue the current treatment plan with weekly review"
TextY == "Recommendation: continue the current treatment plan with weekly audit"
TextZ == "Recommendation: continue the current treatment plan with weekly visits"
SharedWords == {":", "continue", "the", "current", "treatment", "plan", "with", "weekly"}

\* Characters of the text that follows "confidence:" in a response.
Digits == <<"0", "1", "2", "3", "4", "5", "6", "7", "8", "9">>
Alphabet == {"0", "1", "3", "5", "/", "%", ".", "-", "x"}

\* All strings over the alphabet up to a length, as character sequences.
StringsUpTo(n) == UNION {[1..k -> Alphabet] : k \in 0..n}

\* Longer strings after "confidence:" that responses carry.
QuotedConfidences ==
  { <<"8", "/", "1", "0">>, <<"1", "2", "0", "%">>, <<"-", "8", "/", "1", "0">>,
    <<"0", ".", "8", "5">>, <<"8", "/", "1", "0", "/", "5">>, <<"1", ".", "5", "%">>,
    <<"8", "5", "%", "%">>, <<"1", "0", "/", "1", "0">>, <<"h", "i", "g", "h">>,
    <<"9", "0", "%">>, <<"0", ".", "5">>, <<"0", ".", "9">>, <<"0", "/", "0">> }

ConfidenceStrings == StringsUpTo(MaxConfidenceLen) \cup QuotedConfidences

RECURSIVE Join(_)
Join(chars) == IF chars = <<>> THEN "" ELSE Head(chars) \o Join(Tail(chars))

\* A response that states a confidence and nothing else.
ConfidenceText(chars) == "Confidence: " \o Join(chars)
ConfidenceTexts == {ConfidenceText(chars) : chars \in ConfidenceStrings}

\* response.lower().split("confidence:")[1].split("\n")[0].strip() for the
\* responses that contain "confidence:".
ConfidenceStrOf ==
  [text \in ConfidenceTexts |->
     CHOOSE chars \in ConfidenceStrings : ConfidenceText(chars) = text]

(***************************************************************************)
(* DeliberationManager: confidence extraction of _check_consensus.         *)
(***************************************************************************)
\* str.split(sep) on a character sequence: the pieces between separators.
RECURSIVE Split(_, _)
Split(chars, sep) ==
  IF \A i \in 1..Len(chars) : chars[i] # sep THEN <<chars>>
  ELSE LET i == CHOOSE k \in 1..Len(chars) :
                  chars[k] = sep /\ \A j \in 1..(k - 1) : chars[j] # sep
       IN <<SubSeq(chars, 1, i - 1)>> \o Split(SubSeq(chars, i + 1, Len(chars)), sep)

\* str.replace(old, "") on a character sequence.
Remove(chars, old) == SelectSeq(chars, LAMBDA c : c # old)

\* The number a run of decimal digits denotes.
RECURSIVE DecimalValue(_)
DecimalValue(chars) ==
  IF chars = <<>> THEN 0
  ELSE 10 * DecimalValue(SubSeq(chars, 1, Len(chars) - 1))
       + (CHOOSE i \in 1..Len(Digits) : Digits[i] = chars[Len(chars)]) - 1

RECURSIVE Pow10(_)
Pow10(n) == IF n = 0 THEN 1 ELSE 10 * Pow10(n - 1)

ValueError == [ok |-> FALSE]

\* float(s) as far as reading the literal goes: an optional sign, digits
\* with at most one decimal point and at least one digit denote
\* (-1)^neg * k / 10^d; anything else raises ValueError.
ParseFloat(chars) ==
  LET neg == chars # <<>> /\ chars[1] = "-"
      body == IF neg THEN Tail(chars) ELSE chars
      pieces == Split(body, ".")
      digits == Remove(body, ".")
  IN IF /\ \A i \in 1..Len(body) : body[i] = "." \/ \E j \in 1..Len(Digits) : Digits[j] = body[i]
        /\ Len(pieces) <= 2
        /\ digits # <<>>
     THEN [ok |-> TRUE, neg |-> neg, k |-> DecimalValue(digits),
           d |-> IF Len(pieces) = 2 THEN Len(pieces[2]) ELSE 0]
     ELSE ValueError

\* The float a literal denotes: the one nearest to k / 10^d.
FloatOf(p) ==
  CHOOSE x \in {IF q.hi = 0 THEN Zero ELSE [q EXCEPT !.neg = p.neg] :
                  q \in {IntDiv(p.k, Pow10(p.d))}} : TRUE

\* float(a) / float(b).  Every denominator of the model's strings is a whole
\* number, which makes the quotient the division of a float by an integer.
\* Returns "failed" for what the bare except clause catches.
ParseRatio(pieces) ==
  LET a == ParseFloat(pieces[1])
      b == ParseFloat(pieces[2])
  IN IF ~a.ok \/ ~b.ok \/ b.k = 0 THEN ValueError
     ELSE [ok |-> TRUE,
           value |-> CHOOSE x \in
             {IF q.hi = 0 THEN Zero ELSE [q EXCEPT !.neg = (a.neg # b.neg)] :
                q \in {FloatDivInt(FloatOf(a), b.k)}} : TRUE]

\* A value stored as it is.
Unclamped(confidence) == confidence

\* min(1.0, max(0.0, confidence))
Clamp(confidence) ==
  CHOOSE r \in
    {IF ~FloatGreater(c, Zero) THEN Zero
     ELSE IF FloatGreater(One, c) THEN c ELSE One : c \in {confidence}} : TRUE

ParseFailureConfidence == IntDiv(7, 10)    \* 0.7 of the bare except clause
NoConfidenceDefault == IntDiv(5, 10)       \* 0.5 when "confidence:" is absent

\* The value stored in confidence_tracker for one response.
ExtractConfidence(content) ==
  IF content.text \notin ConfidenceTexts THEN NoConfidenceDefault
  ELSE LET confidence_str == ConfidenceStrOf[content.text]
           slash == \E i \in 1..Len(confidence_str) : confidence_str[i] = "/"
           percent == \E i \in 1..Len(confidence_str) : confidence_str[i] = "%"
           parsed ==
             IF slash THEN ParseRatio(Split(confidence_str, "/"))
             ELSE IF percent
             THEN LET p == ParseFloat(Remove(confidence_str, "%"))
                  IN IF p.ok THEN [ok |-> TRUE, value |-> FloatDivInt(FloatOf(p), 100)]
                     ELSE ValueError
             ELSE LET p == ParseFloat(confidence_str)
                  IN IF ~p.ok THEN ValueError
                     ELSE [ok |-> TRUE,
                           value |-> CHOOSE v \in
                             {IF FloatGreater(x, One) THEN FloatDivInt(x, 10) ELSE x :
                                x \in {FloatOf(p)}} : TRUE]
       IN CHOOSE r \in {IF q.ok THEN Clamp(q.value) ELSE ParseFailureConfidence :
                          q \in {parsed}} : TRUE

(***************************************************************************)
(* DeliberationManager: consensus detection.                               *)
(***************************************************************************)
ConsensusThreshold == IntDiv(8, 10)      \* avg_agreement > 0.8

\* _extract_agent_key_points on the texts of the model, each key point given
\* as the word set that _calculate_agreement_score splits it into.  The texts
\* listed match the section "recommendation" and yield the paragraph after
\* it; the error marker and the texts that only state a confidence match no
\* section and no key term.
_extract_agent_key_points(content) ==
  CASE content.text = TextA -> << {":", "continue", "treatment"} >>
    [] content.text = TextB -> << {":", "stop", "treatment"} >>
    [] content.text = TextX -> << SharedWords \cup {"review"} >>
    [] content.text = TextY -> << SharedWords \cup {"audit"} >>
    [] content.text = TextZ -> << SharedWords \cup {"visits"} >>
    [] OTHER -> << >>

\* similarity = intersection / union of two word sets.
Jaccard(words1, words2) ==
  IntDiv(Cardinality(words1 \cap words2), Cardinality(words1 \cup words2))

\* The pairs of key points compared, in the order of the nested loops:
\* those whose word sets are both non-empty.
ComparedPairs(points1, points2) ==
  SelectSeq([k \in 1..(Len(points1) * Len(points2)) |->
               <<((k - 1) \div Len(points2)) + 1, ((k - 1) % Len(points2)) + 1>>],
            LAMBDA c : points1[c[1]] # {} /\ points2[c[2]] # {})

\* total_similarity after the first k compared pairs.
RECURSIVE TotalSimilarity(_, _, _, _)
TotalSimilarity(k, compared, points1, points2) ==
  IF k = 0 THEN Zero
  ELSE FloatAdd(TotalSimilarity(k - 1, compared, points1, points2),
                Jaccard(points1[compared[k][1]], points2[compared[k][2]]))

\* _calculate_agreement_score: mean Jaccard similarity over the pairs of key
\* points whose word sets are both non-empty; 0 without such a pair.
_calculate_agreement_score(points1, points2) ==
  IF points1 = <<>> \/ points2 = <<>> THEN Zero
  ELSE CHOOSE score \in
         {IF compared = <<>> THEN Zero
          ELSE FloatDivInt(TotalSimilarity(Len(compared), compared, points1, points2),
                           Len(compared)) :
            compared \in {ComparedPairs(points1, points2)}} : TRUE

\* A scan that keeps every entry, whoever wrote it.
ScanEveryEntry(history, roster, k, found) == found \o [i \in 1..k |-> k + 1 - i]

\* The loop over reversed(conversation_history) from entry k down: found
\* holds the indices of the entries kept so far.
RECURSIVE ScanLatest(_, _, _, _)
ScanLatest(history, roster, k, found) ==
  IF k = 0 THEN found
  ELSE LET fresh == \A f \in 1..Len(found) :
                      roster[history[found[f]].agent] # roster[history[k].agent]
           kept == IF fresh THEN Append(found, k) ELSE found
       IN IF Len(kept) = Len(roster) THEN kept
          ELSE ScanLatest(history, roster, k - 1, kept)

\* latest_responses of _check_consensus: one item per role that has an
\* entry, holding the content of its last entry, in the insertion order of
\* the dictionary (the dictionary is keyed by agent.role).
latest_responses(history, roster) ==
  CHOOSE items \in
    {[f \in 1..Len(found) |-> [role |-> roster[history[found[f]].agent],
                                content |-> history[found[f]].content]] :
       found \in {ScanLatest(history, roster, Len(history), <<>>)}} : TRUE

\* A tracker that records every value it is given, one after the other.
TrackerAppend(tracker0, role, value0) ==
  Append(tracker0, [role |-> role, confidence |-> value0])

\* self.confidence_tracker[role] = value
TrackerSet(tracker0, role, value0) ==
  CHOOSE t \in
    {IF \E i \in 1..Len(tracker) : tracker[i].role = role
     THEN [i \in 1..Len(tracker) |->
             IF tracker[i].role = role THEN [role |-> role, confidence |-> value]
             ELSE tracker[i]]
     ELSE Append(tracker, [role |-> role, confidence |-> value]) :
       tracker \in {tracker0}, value \in {value0}} : TRUE

\* The confidence tracker after the first k latest responses are processed.
RECURSIVE TrackLatest(_, _, _)
TrackLatest(tracker, latest, k) ==
  IF k = 0 THEN tracker
  ELSE TrackerSet(TrackLatest(tracker, latest, k - 1), latest[k].role,
                  ExtractConfidence(latest[k].content))

\* confidence_tracker as a call of _check_consensus leaves it.
TrackerAfterCheck(tracker0, history, roster) ==
  IF Len(history) < 2 THEN tracker0
  ELSE CHOOSE t \in {TrackLatest(tracker, latest, Len(latest)) :
                       tracker \in {tracker0},
                       latest \in {latest_responses(history, roster)}} : TRUE

\* The pairs (i, j), i < j, of agent_keys in the order of the nested loops.
AgentPairs(n) ==
  SelectSeq([k \in 1..(n * n) |-> <<((k - 1) \div n) + 1, ((k - 1) % n) + 1>>],
            LAMBDA p : p[1] < p[2])

\* sum(agreement_scores.values()) over the first k pairs of agents.
RECURSIVE TotalAgreement(_, _, _)
TotalAgreement(k, pairs, key_points) ==
  IF k = 0 THEN Zero
  ELSE FloatAdd(TotalAgreement(k - 1, pairs, key_points),
                _calculate_agreement_score(key_points[pairs[k][1]],
                                           key_points[pairs[k][2]]))

\* avg_agreement of _check_consensus for the key points of the latest
\* responses.
AvgAgreement(key_points) ==
  CHOOSE avg \in
    {FloatDivInt(TotalAgreement(Len(pairs), pairs, key_points), Len(pairs)) :
       pairs \in {AgentPairs(Len(key_points))}} : TRUE

\* The value _check_consensus returns.
_check_consensus(history, roster) ==
  /\ Len(history) >= 2
  /\ \E latest \in {latest_responses(history, roster)} :
       /\ Len(latest) >= 2
       /\ FloatGreater(AvgAgreement([i \in 1..Len(latest) |->
                                       _extract_agent_key_points(latest[i].content)]),
                       ConsensusThreshold)

(***************************************************************************)
(* DeliberationManager: the round loop.                                    *)
(***************************************************************************)
\* A selection that lets the whole roster speak, whatever the cap.
_get_speaking_agents_uncapped(roster, cap) == [i \in 1..Len(roster) |-> i]

\* _get_speaking_agents: roster indices, round-robin from start_idx = 0.
_get_speaking_agents(roster, cap) ==
  [i \in 1..Min(cap, Len(roster)) |-> ((0 + (i - 1)) % Len(roster)) + 1]

\* A formatting that writes the whole transcript into the prompt.
_format_whole_history(history) == history

\* _format_conversation_history: the blocks of self.conversation_history[-5:],
\* one per entry, each the entry's agent and its content.
_format_conversation_history(history) ==
  SubSeq(history, IF Len(history) > HistoryTail THEN Len(history) - HistoryTail + 1 ELSE 1,
         Len(history))

\* _create_agent_prompt for the agent in slot i of round r, with history the
\* value of self.conversation_history at the call.
_create_agent_prompt(r, i, agent, history) ==
  [kind |-> "agent", round |-> r, slot |-> i, agent |-> agent,
   history |-> _format_conversation_history(history)]

\* The prompt of _generate_final_consensus.
FinalPrompt == [kind |-> "final", round |-> 0, slot |-> 1, agent |-> 0, history |-> <<>>]

\* The loop of _run_parallel_agent_responses after the gather:
\* zip(agents, responses) into the round's result list.
round_results_of(speakers, responses) ==
  [i \in 1..Min(Len(speakers), Len(responses)) |->
     [agent |-> speakers[i], response |-> responses[i].content]]

\* An update that puts the new entries in front of the old ones.
_update_conversation_state_prepend(history, round_results) ==
  [i \in 1..Len(round_results) |->
     [agent |-> round_results[i].agent, content |-> round_results[i].response]]
  \o history

\* _update_conversation_state: one entry per result, appended in order.
_update_conversation_state(history, round_results) ==
  history \o [i \in 1..Len(round_results) |->
                [agent |-> round_results[i].agent,
                 content |-> round_results[i].response]]

\* A loop bound that is off by one.
LoopContinuesOffByOne(r) == r + 1 <= max_rounds

\* The for loop runs its body again while round_num + 1 is in range(max_rounds).
LoopContinues(r) == r + 1 < max_rounds

\* A loop that leaves after its first round whatever the check returned.
BreaksAtOnce(checked) == TRUE

\* if self._check_consensus(): break.  The call follows that of
\* _update_conversation_state with nothing in between, reads the transcript
\* it read and returns what it returned.
BreaksOnConsensus(checked) == checked

NoMetrics == [kind |-> "unset"]
NoFinalConsensus == [kind |-> "unset"]

\* The fixed result of _generate_final_consensus on an empty transcript.
EmptyFinalConsensus ==
  [kind |-> "empty", summary |-> "No deliberation occurred",
   recommendation |-> "No recommendation available", confidence |-> Zero,
   full_text |-> ""]

\* Responses to the finalization request.
FinalHigh == "Summary: agreed. Confidence: high"
FinalMedium == "Summary: agreed. Confidence: medium"
FinalLow == "Summary: agreed. Confidence: low"
FinalRange == "Summary: agreed. Confidence: low to medium"
FinalUnstated == "Summary: agreed"
FinalTexts == {FinalHigh, FinalMedium, FinalLow, FinalRange, FinalUnstated, TextA,
               ErrorMarker}

\* The words of confidence_map that occur in content.lower(), for the
\* contents in which "confidence" occurs.
LevelsIn(text) ==
  CASE text = FinalHigh -> {"high"}
    [] text = FinalMedium -> {"medium"}
    [] text = FinalLow -> {"low"}
    [] text = FinalRange -> {"low", "medium"}
    [] text = ConfidenceText(<<"h", "i", "g", "h">>) -> {"high"}
    [] OTHER -> {}

\* "confidence" in content.lower()
MentionsConfidence(text) ==
  text \in {FinalHigh, FinalMedium, FinalLow, FinalRange} \cup ConfidenceTexts

\* parts[1].split("\n\n")[0].strip() after "summary", "" without it.
SummaryOf(text) ==
  CASE text = FinalHigh -> ": agreed. confidence: high"
    [] text = FinalMedium -> ": agreed. confidence: medium"
    [] text = FinalLow -> ": agreed. confidence: low"
    [] text = FinalRange -> ": agreed. confidence: low to medium"
    [] text = FinalUnstated -> ": agreed"
    [] OTHER -> ""

\* parts[1].split("\n\n")[0].strip() after "recommend", "" without it.
RecommendationOf(text) ==
  CASE text = TextA -> "ation: continue treatment"
    [] text = TextB -> "ation: stop treatment"
    [] text = TextX -> "ation: continue the current treatment plan with weekly review"
    [] text = TextY -> "ation: continue the current treatment plan with weekly audit"
    [] text = TextZ -> "ation: continue the current treatment plan with weekly visits"
    [] OTHER -> ""

\* confidence_map, in the order of the dictionary.
confidence_map ==
  << [level |-> "high", value |-> IntDiv(9, 10)],
     [level |-> "medium", value |-> IntDiv(7, 10)],
     [level |-> "low", value |-> IntDiv(5, 10)] >>

\* The confidence read from the finalization response: that of the first
\* level of confidence_map that occurs in it, 0.0 if none does or the word
\* "confidence" is missing.
StatedConfidence(text) ==
  IF MentionsConfidence(text) /\ \E i \in 1..Len(confidence_map) :
                                      confidence_map[i].level \in LevelsIn(text)
  THEN confidence_map[CHOOSE i \in 1..Len(confidence_map) :
                        /\ confidence_map[i].level \in LevelsIn(text)
                        /\ \A j \in 1..(i - 1) :
                             confidence_map[j].level \notin LevelsIn(text)].value
  ELSE Zero

\* sum(agent_confidences) over the first k values of the tracker.
RECURSIVE TotalConfidence(_, _)
TotalConfidence(tracker, k) ==
  IF k = 0 THEN Zero
  ELSE FloatAdd(TotalConfidence(tracker, k - 1), tracker[k].confidence)

EmptyTrackerConfidence == IntDiv(7, 10)     \* 0.7 when no agent has a confidence

\* avg_agent_confidence
AvgAgentConfidence(tracker) ==
  IF tracker = <<>> THEN EmptyTrackerConfidence
  ELSE FloatDivInt(TotalConfidence(tracker, Len(tracker)), Len(tracker))

\* A final confidence that ignores the agents.
BlendModelOnly(confidence, avg_agent_confidence) == confidence

\* blended_confidence = (confidence + avg_agent_confidence) / 2
Blend(confidence, avg_agent_confidence) ==
  FloatDivInt(FloatAdd(confidence, avg_agent_confidence), 2)

\* The dictionary _generate_final_consensus builds from the response to its
\* request.
_generate_final_consensus(text, tracker) ==
  LET summary == SummaryOf(text)
      recommendation == RecommendationOf(text)
      structured == summary # "" \/ recommendation # ""
  IN [kind |-> "generated",
      summary |-> IF structured THEN summary ELSE "See full consensus below",
      recommendation |-> IF structured THEN recommendation ELSE text,
      confidence |-> Blend(StatedConfidence(text), AvgAgentConfidence(tracker)),
      full_text |-> text]

\* _get_performance_metrics; raises ZeroDivisionError on an empty roster.
_get_performance_metrics(history, roster, reached) ==
  IF Len(roster) = 0 THEN [kind |-> "raised"]
  ELSE [kind |-> "metrics",
        total_rounds |-> Len(history) \div Len(roster),
        consensus_reached |-> reached,
        total_responses |-> Len(history),
        total_requests |-> request_counts,
        errors |-> error_counts]

\* A client that takes over the flag run_pipeline was called with.
InheritedConfirmation == pipeline_args.require_confirmation

\* self.api_client.require_confirmation: DeliberationManager.__init__
\* constructs its APIClient with require_confirmation=False.
api_client_require_confirmation == FALSE

\* make_parallel_requests and generate_response_async ask the user before
\* they send when the client requires confirmation; a step that has
\* dispatched a round or the finalization request has then read an answer,
\* taken to be an affirmative one.
ConfirmDispatch ==
  /\ inputs_read' =
       IF api_client_require_confirmation /\ pc' \in {"ROUND_ACTIVE", "FINALIZING"}
       THEN inputs_read + 1 ELSE inputs_read
  /\ UNCHANGED <<pipeline_args, pipeline_pc, pipeline_return>>

\* The state right after the dispatch of round r, history the transcript at
\* that point: every prompt is built before the requests go out.
DispatchRound(r, history) ==
  LET speakers == _get_speaking_agents(agents, engine_max_concurrent)
      prompts == [i \in 1..Len(speakers) |->
                    _create_agent_prompt(r, i, speakers[i], history)]
  IN /\ round_num' = r
     /\ speaking' = speakers
     /\ tasks' = make_parallel_requests(prompts, KnownModel)
     /\ completion_order' = <<>>
     /\ pc' = "ROUND_ACTIVE"

\* Code after the loop that never asks for a final consensus.
AfterLoopWithoutRequest(history, reached, rounds) ==
  /\ tasks' = <<>>
  /\ completion_order' = <<>>
  /\ pc' = "DONE"
  /\ results' = [rounds |-> rounds, final_consensus |-> EmptyFinalConsensus,
                 performance_metrics |-> NoMetrics]

\* The code after the loop up to its next suspension: with an empty
\* transcript _generate_final_consensus returns at once and the result is
\* completed; otherwise the finalization request goes out.
AfterLoop(history, reached, rounds) ==
  IF history = <<>>
  THEN LET metrics == _get_performance_metrics(history, agents, reached)
       IN /\ tasks' = <<>>
          /\ completion_order' = <<>>
          /\ pc' = IF metrics.kind = "raised" THEN "RAISED" ELSE "DONE"
          /\ results' = [rounds |-> rounds,
                         final_consensus |-> EmptyFinalConsensus,
                         performance_metrics |->
                           IF metrics.kind = "raised" THEN NoMetrics ELSE metrics]
  ELSE /\ tasks' = <<NewTask(FinalPrompt, KnownModel, "async")>>
       /\ completion_order' = <<>>
       /\ pc' = "FINALIZING"
       /\ results' = [results EXCEPT !.rounds = rounds]

\* A round in which every speaking agent answers through its own
\* generate_response, which appends to the agent's memory log.
AgentsRespondInRound ==
  /\ memories' = memories \o [i \in 1..Len(tasks) |->
                                [role |-> "assistant", content |-> tasks[i].result.content,
                                 timestamp |-> clock, importance |-> Zero]]
  /\ UNCHANGED <<memory_size, clock>>

\* _run_parallel_agent_responses sends prompts of the engine through the
\* engine's client and reads of an agent nothing but its role; it calls no
\* method of an agent, so the memory log of every roster agent stays as its
\* construction left it.
AgentMemoriesAfterRound == UNCHANGED <<memory_size, memories, clock>>

\* run_deliberation up to its first suspension.
run_deliberation ==
  /\ pc = "INIT"
  /\ IF 0 < max_rounds
     THEN /\ DispatchRound(0, conversation_history)
          /\ UNCHANGED <<loop_exit, results>>
     ELSE /\ loop_exit' = "exhausted"
          /\ AfterLoop(conversation_history, consensus_reached, <<>>)
          /\ UNCHANGED <<round_num, speaking>>
  /\ UNCHANGED <<max_retries, retry_delay, max_concurrent, request_counts,
                 error_counts, request_times, backend_attempts>>
  /\ UNCHANGED <<agents, engine_max_concurrent, max_rounds, conversation_history,
                 consensus_reached, confidence_tracker, checks_done, reordered>>
  /\ ConfirmDispatch
  /\ UNCHANGED <<callVars, unit, agentVars>>

\* The gather of a round returns: the rest of _run_parallel_agent_responses,
\* _update_conversation_state, the consensus check, and then either the next
\* round's dispatch or the code after the loop.
RoundReturn ==
  /\ pc = "ROUND_ACTIVE"
  /\ gather_ready(tasks)
  /\ LET responses == gather(tasks, completion_order)
         round_results == round_results_of(speaking, responses)
         broken == \E i \in 1..Len(responses) : responses[i].kind # "response"
         history == _update_conversation_state(conversation_history, round_results)
     IN
       IF broken
       THEN \* gather re-raises, or response.get fails on None
            /\ pc' = "RAISED"
            /\ UNCHANGED <<tasks, completion_order, round_num, speaking,
                           conversation_history, consensus_reached,
                           confidence_tracker, checks_done, reordered, loop_exit,
                           results>>
       ELSE
         /\ conversation_history' = history
         /\ reordered' = (completion_order # [i \in 1..Len(tasks) |-> i])
         /\ checks_done' = checks_done + 1
         /\ confidence_tracker' =
              TrackerAfterCheck(TrackerAfterCheck(confidence_tracker,
                                                  conversation_history', agents),
                                conversation_history', agents)
         /\ \E checked \in {_check_consensus(conversation_history', agents)} :
              IF BreaksOnConsensus(checked)
              THEN /\ consensus_reached' = TRUE
                   /\ loop_exit' = "break"
                   /\ AfterLoop(conversation_history', TRUE, results.rounds)
                   /\ UNCHANGED <<round_num, speaking>>
              ELSE /\ consensus_reached' = checked
                   /\ IF LoopContinues(round_num)
                      THEN /\ DispatchRound(round_num + 1, conversation_history')
                           /\ results' = [results EXCEPT !.rounds = Append(@, round_results)]
                           /\ UNCHANGED loop_exit
                      ELSE /\ loop_exit' = "exhausted"
                           /\ AfterLoop(conversation_history', checked,
                                        Append(results.rounds, round_results))
                           /\ UNCHANGED <<round_num, speaking>>
  /\ UNCHANGED <<max_retries, retry_delay, max_concurrent, request_counts,
                 error_counts, request_times, backend_attempts>>
  /\ UNCHANGED <<agents, engine_max_concurrent, max_rounds>>
  /\ ConfirmDispatch
  /\ AgentMemoriesAfterRound
  /\ UNCHANGED <<callVars, unit>>

\* make_request of _generate_final_consensus returns: the response is parsed
\* and the result completed.
FinalizeReturn ==
  /\ pc = "FINALIZING"
  /\ gather_ready(tasks)
  /\ LET response == tasks[1].result
         metrics == _get_performance_metrics(conversation_history, agents,
                                             consensus_reached)
     IN IF response.kind # "response" \/ metrics.kind = "raised"
        THEN /\ pc' = "RAISED"
             /\ UNCHANGED results
        ELSE /\ pc' = "DONE"
             /\ results' = [results EXCEPT
                  !.final_consensus =
                    _generate_final_consensus(response.content.text, confidence_tracker),
                  !.performance_metrics = metrics]
  /\ tasks' = <<>>
  /\ completion_order' = <<>>
  /\ UNCHANGED <<max_retries, retry_delay, max_concurrent, request_counts,
                 error_counts, request_times, backend_attempts>>
  /\ UNCHANGED <<agents, engine_max_concurrent, max_rounds, round_num, speaking,
                 conversation_history, consensus_reached, confidence_tracker,
                 checks_done, reordered, loop_exit>>
  /\ UNCHANGED <<callVars, unit, agentVars, pipelineVars>>

(***************************************************************************)
(* A deliberation session.                                                 *)
(***************************************************************************)
RoleList == <<"attending_physician", "nurse_manager", "ethicist", "patient_advocate">>

\* Rosters: the first n roles, n = 0 when no requested role is known.
Rosters == {SubSeq(RoleList, 1, n) : n \in 0..MaxAgents}

\* max_concurrent values the engine is constructed with: one speaker per
\* round, or two, which lets a whole roster of two speak in every round the
\* way the configured cap does.
EngineCaps == {1, 2}

\* What the backend can do with a request of a session.
EngineOutcomes == Texts \cup BackendErrors

Init ==
  /\ max_retries \in {1, ConfigMaxRetries}
  /\ max_concurrent = DefaultMaxConcurrent
  /\ ClientFresh
  /\ pc = "INIT"
  /\ agents \in Rosters
  /\ engine_max_concurrent \in EngineCaps
  /\ max_rounds \in 0..MaxRounds
  /\ round_num = 0
  /\ speaking = <<>>
  /\ conversation_history = <<>>
  /\ consensus_reached = FALSE
  /\ confidence_tracker = <<>>
  /\ checks_done = 0
  /\ reordered = FALSE
  /\ loop_exit = "none"
  /\ results = [rounds |-> <<>>, final_consensus |-> NoFinalConsensus,
                performance_metrics |-> NoMetrics]
  /\ NoUnitCall
  /\ NoAgent
  /\ NoPipeline

Next ==
  \/ run_deliberation
  \/ \E i \in 1..MaxAgents, o \in EngineOutcomes : BackendReturn(i, o)
  \/ \E i \in 1..MaxAgents : RetryWake(i)
  \/ RoundReturn
  \/ FinalizeReturn

Spec == Init /\ [][Next]_vars

\* The backend answers or fails every request, every sleep ends, and the
\* event loop resumes every coroutine that is ready.
FairSpec == Spec /\ WF_vars(Next)

(***************************************************************************)
(* A session long enough for its transcript to outgrow the part of it that *)
(* a prompt quotes: two agents, a backend that answers every request at    *)
(* the first attempt, and up to MaxLongRounds rounds.                      *)
(***************************************************************************)
MaxLongRounds == 4     \* largest max_rounds of a session with a reliable backend

InitLongSession ==
  /\ max_retries = 1
  /\ max_concurrent = DefaultMaxConcurrent
  /\ ClientFresh
  /\ pc = "INIT"
  /\ agents = SubSeq(RoleList, 1, 2)
  /\ engine_max_concurrent \in EngineCaps
  /\ max_rounds \in 0..MaxLongRounds
  /\ round_num = 0
  /\ speaking = <<>>
  /\ conversation_history = <<>>
  /\ consensus_reached = FALSE
  /\ confidence_tracker = <<>>
  /\ checks_done = 0
  /\ reordered = FALSE
  /\ loop_exit = "none"
  /\ results = [rounds |-> <<>>, final_consensus |-> NoFinalConsensus,
                performance_metrics |-> NoMetrics]
  /\ NoUnitCall
  /\ NoAgent
  /\ NoPipeline

NextLongSession ==
  \/ run_deliberation
  \/ \E i \in 1..2, text \in Texts : BackendReturn(i, text)
  \/ RoundReturn
  \/ FinalizeReturn

SpecLongSession == InitLongSession /\ [][NextLongSession]_vars

(***************************************************************************)
(* run_pipeline with case_type "autonomy": the confirmation loop,          *)
(* PipelineManager.run_autonomy_case and the session it runs.              *)
(***************************************************************************)
MaxRoles == 2          \* longest role list handed to run_pipeline
MaxInputs == 3         \* most answers read by the confirmation loop

\* role_configs of run_autonomy_case.
role_configs == {"attending_physician", "nurse_manager"}

\* A role identifier run_autonomy_case has no RoleConfig for.
UndefinedRole == "policy_expert"

\* roles=None, and the list run_autonomy_case puts in its place.
NoRoles == <<"None">>
DefaultRoles == <<"attending_physician", "nurse_manager">>

\* The role lists a caller hands over.
RoleLists ==
  {NoRoles} \cup UNION {[1..n -> role_configs \cup {UndefinedRole}] : n \in 0..MaxRoles}

\* What the user types at the prompt, and str.lower() of a word.
Answers == {"y", "YES", "n", "No", "maybe", ""}
Lower(answer) ==
  CASE answer = "YES" -> "yes"
    [] answer = "No" -> "no"
    [] answer = "The" -> "the"
    [] OTHER -> answer

\* An answer check that takes everything but a refusal for consent.
AffirmativeUnlessRefused(response) == response \notin {"n", "no"}

\* response in ['y', 'yes']
Affirmative(response) == response \in {"y", "yes"}

\* response in ['n', 'no']
Negative(response) == response \in {"n", "no"}

\* manager.agents as run_autonomy_case builds it: one agent per requested
\* role that is in role_configs, in the order of the request.
RosterOf(roles) ==
  SelectSeq(IF roles = NoRoles THEN DefaultRoles ELSE roles,
            LAMBDA role : role \in role_configs)

\* run_pipeline from the end of the confirmation to the await of
\* run_deliberation: PipelineManager (max_concurrent left at its default 2)
\* and DeliberationManager are constructed and the roster is replaced.
StartCase ==
  /\ pipeline_pc' = "RUNNING"
  /\ pc' = "INIT"
  /\ agents' = RosterOf(pipeline_args.roles)
  /\ engine_max_concurrent' =
       IF pipeline_args.max_concurrent # 0 THEN pipeline_args.max_concurrent ELSE 2
  /\ max_rounds' = pipeline_args.max_rounds
  /\ UNCHANGED <<round_num, speaking, conversation_history, consensus_reached,
                 confidence_tracker, checks_done, reordered, loop_exit, results>>
  /\ UNCHANGED pipeline_return

\* run_pipeline up to the first input(), or up to run_deliberation when no
\* confirmation is required.
run_pipeline ==
  /\ pipeline_pc = "START"
  /\ IF pipeline_args.require_confirmation
     THEN /\ pipeline_pc' = "CONFIRM"
          /\ UNCHANGED <<engineVars, pipeline_return>>
     ELSE StartCase
  /\ UNCHANGED <<pipeline_args, inputs_read>>
  /\ UNCHANGED <<clientVars, callVars, unit, agentVars>>

\* input() returns answer: one iteration of the while True loop.
ReadAnswer(answer) ==
  /\ pipeline_pc = "CONFIRM"
  /\ inputs_read < MaxInputs
  /\ inputs_read' = inputs_read + 1
  /\ IF Affirmative(Lower(answer)) THEN StartCase
     ELSE IF Negative(Lower(answer))
     THEN /\ pipeline_pc' = "RETURNED"
          /\ pipeline_return' = [status |-> "cancelled"]
          /\ UNCHANGED engineVars
     ELSE /\ UNCHANGED <<pipeline_pc, pipeline_return, engineVars>>
  /\ UNCHANGED pipeline_args
  /\ UNCHANGED <<clientVars, callVars, unit, agentVars>>

\* run_deliberation has returned or raised: run_pipeline formats and returns
\* the output, or the exception leaves it.
PipelineReturn ==
  /\ pipeline_pc = "RUNNING"
  /\ pc \in {"DONE", "RAISED"}
  /\ pipeline_pc' = IF pc = "DONE" THEN "RETURNED" ELSE "RAISED"
  /\ pipeline_return' = IF pc = "DONE" THEN [status |-> "output"] ELSE pipeline_return
  /\ UNCHANGED <<pipeline_args, inputs_read>>
  /\ UNCHANGED <<clientVars, callVars, engineVars, unit, agentVars>>

InitPipeline ==
  /\ max_retries = ConfigMaxRetries
  /\ max_concurrent = DefaultMaxConcurrent
  /\ ClientFresh
  /\ EngineIdle
  /\ NoUnitCall
  /\ NoAgent
  /\ pipeline_args \in [roles : RoleLists, max_rounds : {1}, max_concurrent : {0, 1},
                        require_confirmation : BOOLEAN]
  /\ pipeline_pc = "START"
  /\ inputs_read = 0
  /\ pipeline_return = [status |-> "none"]

NextPipeline ==
  \/ run_pipeline
  \/ \E answer \in Answers : ReadAnswer(answer)
  \/ run_deliberation
  \/ \E i \in 1..MaxRoles, o \in EngineOutcomes : BackendReturn(i, o)
  \/ \E i \in 1..MaxRoles : RetryWake(i)
  \/ RoundReturn
  \/ FinalizeReturn
  \/ PipelineReturn

SpecPipeline == InitPipeline /\ [][NextPipeline]_vars

(***************************************************************************)
(* Consensus detection and finalization on the transcript of a manager     *)
(* that is handed over as it stands, and _calculate_agreement_score called *)
(* on its own.                                                             *)
(***************************************************************************)
\* Responses of the transcripts: three that agree pairwise in 8 words of 10
\* and one without key points.
TranscriptTexts == {TextX, TextY, TextZ, ErrorMarker}

Entry(agent, text) == [agent |-> agent, content |-> Content(text, NoPrompt)]

\* Every transcript of up to MaxTranscript entries by the n agents of a roster.
Transcripts(n) ==
  UNION {[1..k -> {Entry(a, t) : a \in 1..n, t \in TranscriptTexts}] :
           k \in 0..MaxTranscript}

\* Transcripts of two agents in which the second states a confidence.
ConfidenceTranscripts ==
  {<<Entry(1, first), Entry(2, ConfidenceText(chars))>> :
     first \in {ErrorMarker, ConfidenceText(<<"0", ".", "5">>)},
     chars \in ConfidenceStrings}

\* Word sets of key points, and the key-point lists built from them.
PointWords == {{}, {"treat"}, {"treat", "and", "review"}}
PointLists == UNION {[1..k -> PointWords] : k \in 0..MaxPoints}

\* AGENTS_CONFIG["active_roles"], and every roster made of its first
\* roles.
ActiveRoles == <<"ethicist", "healthcare_professional", "patient_advocate">>
\* Two agents created for the same role, as a role list that names a role
\* twice yields them.
SharedRoleRoster == <<"ethicist", "ethicist">>
AllRosters == {SubSeq(ActiveRoles, 1, n) : n \in 0..Len(ActiveRoles)} \cup {SharedRoleRoster}

InitConsensus ==
  /\ max_retries = ConfigMaxRetries
  /\ max_concurrent = DefaultMaxConcurrent
  /\ ClientFresh
  /\ NoAgent
  /\ NoPipeline
  /\ max_rounds = 0
  /\ round_num = 0
  /\ speaking = <<>>
  /\ engine_max_concurrent = DefaultMaxConcurrent
  /\ consensus_reached = FALSE
  /\ confidence_tracker = <<>>
  /\ checks_done = 0
  /\ reordered = FALSE
  /\ loop_exit = "none"
  /\ results = [rounds |-> <<>>, final_consensus |-> NoFinalConsensus,
                performance_metrics |-> NoMetrics]
  /\ \/ /\ pc = "TRANSCRIPT"
        /\ agents \in AllRosters
        /\ conversation_history \in Transcripts(Len(agents))
        /\ NoUnitCall
     \/ /\ pc = "SESSION"
        /\ agents = SubSeq(ActiveRoles, 1, 2)
        /\ conversation_history \in ConfidenceTranscripts
        /\ NoUnitCall
     \/ /\ pc = "IDLE"
        /\ agents = <<>>
        /\ conversation_history = <<>>
        /\ unit \in [step : {"call"}, points1 : PointLists, points2 : PointLists,
                     score : {Zero}]

\* self._check_consensus() on the transcript; a session goes on to its
\* finalization.
CheckConsensus ==
  /\ pc \in {"TRANSCRIPT", "SESSION"}
  /\ consensus_reached' = _check_consensus(conversation_history, agents)
  /\ confidence_tracker' = TrackerAfterCheck(confidence_tracker, conversation_history,
                                             agents)
  /\ checks_done' = checks_done + 1
  /\ pc' = IF pc = "SESSION" THEN "FINALIZING" ELSE "CHECKED"
  /\ UNCHANGED <<clientVars, callVars, unit, agentVars, pipelineVars>>
  /\ UNCHANGED <<agents, engine_max_concurrent, max_rounds, round_num, speaking,
                 conversation_history, reordered, loop_exit, results>>

\* _generate_final_consensus once its request is answered with text.
GenerateFinalConsensus(text) ==
  /\ pc = "FINALIZING"
  /\ tasks = <<>>
  /\ results' = [results EXCEPT
       !.final_consensus = _generate_final_consensus(text, confidence_tracker)]
  /\ pc' = "DONE"
  /\ UNCHANGED <<clientVars, callVars, unit, agentVars, pipelineVars>>
  /\ UNCHANGED <<agents, engine_max_concurrent, max_rounds, round_num, speaking,
                 conversation_history, consensus_reached, confidence_tracker,
                 checks_done, reordered, loop_exit>>

\* self._calculate_agreement_score(points1, points2)
CalculateAgreementScore ==
  /\ unit.step = "call"
  /\ unit' = [unit EXCEPT !.step = "returned",
                          !.score = _calculate_agreement_score(unit.points1,
                                                               unit.points2)]
  /\ UNCHANGED <<clientVars, callVars, engineVars, agentVars, pipelineVars>>

NextConsensus ==
  \/ CheckConsensus
  \/ \E text \in FinalTexts : GenerateFinalConsensus(text)
  \/ CalculateAgreementScore

SpecConsensus == InitConsensus /\ [][NextConsensus]_vars

(***************************************************************************)
(* EnhancedAgent: the memory log.                                          *)
(***************************************************************************)
\* Prompts an agent is asked and texts its backend call answers with.
PlainPrompt == "What next?"
KeyPrompt == "What is the key risk?"
PlainAnswer == "Monitor."
UrgentAnswer == "It is critical and important to monitor."
AgentPrompts == {PlainPrompt, KeyPrompt}
AgentAnswers == {PlainAnswer, UrgentAnswer, ErrorMarker}

\* The number of key_terms ("important", "critical", "key", "essential",
\* "crucial") that occur in text.lower().
KeyTermsIn(text) ==
  CASE text = KeyPrompt -> 1
    [] text = UrgentAnswer -> 2
    [] OTHER -> 0

\* importance after n executions of "importance += 0.2"
RECURSIVE AddTerms(_, _)
AddTerms(importance, n) ==
  IF n = 0 THEN importance ELSE FloatAdd(AddTerms(importance, n - 1), IntDiv(2, 10))

\* min(x, 1.0)
AtMostOne(x) == IF FloatGreater(One, x) THEN x ELSE One

\* _calculate_importance
_calculate_importance(text) ==
  AtMostOne(AddTerms(AtMostOne(IntDiv(Len(text), 1000)), KeyTermsIn(text)))

\* _calculate_importance of every text an agent meets, computed once.
ImportanceOf ==
  [text \in AgentPrompts \cup AgentAnswers |-> _calculate_importance(text)]

\* The sort key (importance, timestamp) of a is greater than that of b.
Outranks(a, b) ==
  \/ FloatGreater(a.importance, b.importance)
  \/ a.importance = b.importance /\ a.timestamp > b.timestamp

\* A trim that ranks nothing and keeps the oldest entries.
Unranked(entries) == entries

\* list.sort(key=(importance, timestamp), reverse=True): a stable sort, so
\* an entry goes behind the entries it does not outrank.
RECURSIVE SortByRank(_)
SortByRank(entries) ==
  IF entries = <<>> THEN <<>>
  ELSE LET sorted == SortByRank(SubSeq(entries, 1, Len(entries) - 1))
           x == entries[Len(entries)]
           behind == {i \in 1..Len(sorted) : Outranks(x, sorted[i])}
           at == IF behind = {} THEN Len(sorted) + 1
                 ELSE CHOOSE i \in behind : \A j \in behind : i <= j
       IN SubSeq(sorted, 1, at - 1) \o <<x>> \o SubSeq(sorted, at, Len(sorted))

\* list.sort(key=timestamp): a stable sort in ascending order.
RECURSIVE SortByTime(_)
SortByTime(entries) ==
  IF entries = <<>> THEN <<>>
  ELSE LET sorted == SortByTime(SubSeq(entries, 1, Len(entries) - 1))
           x == entries[Len(entries)]
           later == {i \in 1..Len(sorted) : sorted[i].timestamp > x.timestamp}
           at == IF later = {} THEN Len(sorted) + 1
                 ELSE CHOOSE i \in later : \A j \in later : i <= j
       IN SubSeq(sorted, 1, at - 1) \o <<x>> \o SubSeq(sorted, at, Len(sorted))

\* The two entries _update_memory appends; t1 and t2 are the readings of
\* time.time().
NewMemories(prompt, response, t1, t2) ==
  << [role |-> "user", content |-> prompt, timestamp |-> t1,
      importance |-> ImportanceOf[prompt]],
     [role |-> "assistant", content |-> response, timestamp |-> t2,
      importance |-> ImportanceOf[response]] >>

\* An update that never trims.
_update_memory_untrimmed(log, size, prompt, response, t1, t2) ==
  log \o NewMemories(prompt, response, t1, t2)

\* _update_memory
_update_memory(log, size, prompt, response, t1, t2) ==
  LET appended == log \o NewMemories(prompt, response, t1, t2)
  IN IF Len(appended) > size * 2
     THEN SortByTime(SubSeq(SortByRank(appended), 1, size * 2))
     ELSE appended

\* EnhancedAgent.generate_response(prompt): the backend call through the
\* agent's own client returns a Response with the content text (the error
\* marker when it failed), and the memory is updated.  The innovation
\* tracker, which nothing reads back into the memory, is left out.
generate_response(prompt, text, t1, t2) ==
  /\ pc = "IDLE"
  /\ call.kind = "idle"
  /\ request_counts < MaxResponds
  /\ request_counts' = request_counts + 1
  /\ request_times' = request_times + 1
  /\ error_counts' = IF text = ErrorMarker THEN error_counts + 1 ELSE error_counts
  /\ memories' = _update_memory(memories, memory_size, prompt, text, t1, t2)
  /\ clock' = t2
  /\ UNCHANGED <<max_retries, retry_delay, max_concurrent, tasks, completion_order,
                 backend_attempts>>
  /\ UNCHANGED <<callVars, engineVars, unit, memory_size, pipelineVars>>

InitAgent ==
  /\ max_retries = ConfigMaxRetries
  /\ max_concurrent = DefaultMaxConcurrent
  /\ ClientFresh
  /\ EngineIdle
  /\ NoUnitCall
  /\ NoPipeline
  /\ memory_size \in 0..MaxMemorySize
  /\ memories = <<>>
  /\ clock = 0

\* time.time() never goes back and may return the same value twice.
NextAgent ==
  \E prompt \in AgentPrompts, text \in AgentAnswers :
    \E t1 \in {clock, clock + 1} :
      \E t2 \in {t1, t1 + 1} : generate_response(prompt, text, t1, t2)

SpecAgent == InitAgent /\ [][NextAgent]_vars

(***************************************************************************)
(* EnhancedAgent: the recall of relevant memories for a prompt.            *)
(***************************************************************************)
MaxRecall == 4         \* longest memory log handed to the recall directly

\* Prompts the recall is asked for: one of four words, one of ten, and the
\* empty string.
DecidePrompt == "should the patient decide"
TellPrompt == "may the team tell her family about it without consent"
RecallPrompts == {DecidePrompt, TellPrompt, ""}

\* Contents of the memories recalled from.
DecideMemory == "The patient should decide"
SleepsMemory == "the patient sleeps"
AgreesMemory == "the patient agrees"
FamilyMemory == "tell her family about it"
TeamMemory == "the team may"
RecallTexts == {DecideMemory, SleepsMemory, AgreesMemory, FamilyMemory, TeamMemory}

\* text.split(), the words between whitespace.
Words(text) ==
  CASE text = DecidePrompt -> {"should", "the", "patient", "decide"}
    [] text = TellPrompt -> {"may", "the", "team", "tell", "her", "family", "about",
                             "it", "without", "consent"}
    [] text = DecideMemory -> {"The", "patient", "should", "decide"}
    [] text = SleepsMemory -> {"the", "patient", "sleeps"}
    [] text = AgreesMemory -> {"the", "patient", "agrees"}
    [] text = FamilyMemory -> {"tell", "her", "family", "about", "it"}
    [] text = TeamMemory -> {"the", "team", "may"}
    [] OTHER -> {}

\* set(text.lower().split())
Keywords(text) == {Lower(word) : word \in Words(text)}

\* _calculate_importance of every memory recalled from, computed once.
RecallImportance == [text \in RecallTexts |-> _calculate_importance(text)]

\* Every log of up to MaxRecall memories, the i-th written at time i.
RecallLogs ==
  UNION {{[i \in 1..n |-> [role |-> IF i % 2 = 1 THEN "user" ELSE "assistant",
                           content |-> texts[i], timestamp |-> i,
                           importance |-> RecallImportance[texts[i]]]] :
            texts \in [1..n -> RecallTexts]} : n \in 0..MaxRecall}

RelevanceThreshold == IntDiv(3, 10)      \* relevance > 0.3
RecallLimit == 3                         \* relevant_memories[:3]

\* len(prompt_keywords.intersection(memory_keywords)) / len(prompt_keywords)
Relevance(prompt, memory) ==
  IntDiv(Cardinality(Keywords(prompt) \cap Keywords(memory.content)),
         Cardinality(Keywords(prompt)))

\* relevant_memories.sort(key=lambda x: x[1], reverse=True): a stable sort,
\* so a pair goes behind the pairs whose relevance is not lower.
RECURSIVE SortByRelevance(_)
SortByRelevance(pairs) ==
  IF pairs = <<>> THEN <<>>
  ELSE LET sorted == SortByRelevance(SubSeq(pairs, 1, Len(pairs) - 1))
           x == pairs[Len(pairs)]
           behind == {i \in 1..Len(sorted) :
                        FloatGreater(x.relevance, sorted[i].relevance)}
           at == IF behind = {} THEN Len(sorted) + 1
                 ELSE CHOOSE i \in behind : \A j \in behind : i <= j
       IN SubSeq(sorted, 1, at - 1) \o <<x>> \o SubSeq(sorted, at, Len(sorted))

\* The list relevant_memories after the loop over self.memories.
relevant_memories(log, prompt) ==
  LET scored == [i \in 1..Len(log) |->
                   [memory |-> log[i], relevance |-> Relevance(prompt, log[i])]]
  IN SelectSeq(scored, LAMBDA pair : FloatGreater(pair.relevance, RelevanceThreshold))

ZeroDivisionError == "ZeroDivisionError"
NoRecall == [kind |-> "none", chosen |-> <<>>, text |-> <<>>]

\* _format_relevant_memories: chosen is the slice relevant_memories[:3] and
\* text the lines written for it, or the sentence returned in their place.
_format_relevant_memories(log, prompt) ==
  IF log = <<>>
  THEN [kind |-> "text", chosen |-> <<>>, text |-> <<"No relevant memories.">>]
  ELSE IF Keywords(prompt) = {}
  THEN [kind |-> "raised", chosen |-> <<>>, text |-> <<ZeroDivisionError>>]
  ELSE LET sorted == SortByRelevance(relevant_memories(log, prompt))
           top == SubSeq(sorted, 1, Min(RecallLimit, Len(sorted)))
       IN [kind |-> "text",
           chosen |-> [i \in 1..Len(top) |-> top[i].memory],
           text |-> IF top = <<>> THEN <<"No relevant memories found.">>
                    ELSE [i \in 1..Len(top) |-> top[i].memory.content]]

\* The call self._format_relevant_memories(prompt) of _create_enhanced_prompt.
FormatRelevantMemories ==
  /\ pc = "IDLE"
  /\ unit.step = "call"
  /\ unit' = [unit EXCEPT !.step = "returned",
                          !.returned = _format_relevant_memories(memories, unit.prompt)]
  /\ UNCHANGED <<clientVars, callVars, engineVars, agentVars, pipelineVars>>

InitRecall ==
  /\ max_retries = ConfigMaxRetries
  /\ max_concurrent = DefaultMaxConcurrent
  /\ ClientFresh
  /\ EngineIdle
  /\ NoPipeline
  /\ memory_size = 10
  /\ memories \in RecallLogs
  /\ clock = Len(memories)
  /\ unit \in [step : {"call"}, prompt : RecallPrompts, returned : {NoRecall}]

NextRecall == FormatRelevantMemories

SpecRecall == InitRecall /\ [][NextRecall]_vars

(***************************************************************************)
(* Properties of the Request Client, checked under SpecClient.             *)
(***************************************************************************)
Task(i) == tasks[i]
TaskIds == 1..Len(tasks)

\* C1: during a send_many call the number of backend requests in flight
\* never exceeds the client's max_concurrent.
C1_InFlightWithinCap ==
  call.kind = "send_many" => InFlight <= max_concurrent

\* C3: with max_retries >= 1 a single send stops at its first successful
\* backend attempt or after exactly max_retries failed ones, returns one
\* Response that is error-tagged iff every attempt failed, makes no attempt
\* after a success, and sleeps non-decreasing delays.
C3_AttemptsUpToFirstSuccess ==
  (max_retries >= 1 /\ call.kind = "send") =>
    \A i \in TaskIds :
      LET t == Task(i)
      IN /\ t.answered => (t.st = "done" /\ ~IsErrorTagged(t.result))
         /\ t.st = "done" =>
              /\ t.result.kind = "response"
              /\ ~t.answered => t.attempt = max_retries - 1
              /\ IsErrorTagged(t.result) <=> ~t.answered
         /\ \A k \in 1..(Len(t.delays) - 1) : t.delays[k] <= t.delays[k + 1]

\* C4: with max_retries >= 1 a send never raises: a finished send holds a
\* Response, error-tagged with the error marker as content whenever its last
\* attempt failed, and a finished call returned one Response per prompt.
C4_NeverRaises ==
  max_retries >= 1 =>
    /\ \A i \in TaskIds :
         LET t == Task(i) IN
           t.st = "done" =>
             /\ t.result.kind = "response"
             /\ t.e # "None" =>
                  /\ IsErrorTagged(t.result)
                  /\ t.result.content.text = ErrorMarker
                  /\ t.attempt = max_retries - 1
    /\ call.kind = "returned" =>
         /\ Len(last_return) = call.n
         /\ \A i \in 1..Len(last_return) :
              /\ last_return[i].kind = "response"
              /\ IsErrorTagged(last_return[i]) <=>
                   last_return[i].content.text = ErrorMarker

\* A send_many of two prompts returned two error-tagged Responses.
C4_Witness ==
  /\ call.kind = "returned"
  /\ call.n = 2
  /\ Len(last_return) = 2
  /\ \A i \in 1..2 : IsErrorTagged(last_return[i])

\* C5 as stated: a terminal backend error ends the send after that one
\* attempt with a tagged failed Response.
C5_TerminalNotRetried ==
  \A i \in TaskIds :
    LET t == Task(i) IN
      t.e \in TerminalKinds =>
        /\ t.attempt = 0
        /\ t.st = "done"
        /\ IsErrorTagged(t.result)

\* C5 as amended: a terminal error is retried like a transient one: a failure
\* of an attempt before the last is followed by the backoff sleep and another
\* attempt, whatever the error, and a tagged failed Response is returned only
\* after the last attempt.
C5_AllErrorsRetriedAlike ==
  \A i \in TaskIds :
    LET t == Task(i) IN
      t.e \in BackendErrors =>
        IF t.attempt < max_retries - 1
        THEN /\ t.st = "sleeping"
             /\ Len(t.delays) = t.attempt + 1
             /\ t.delays[Len(t.delays)] = BackoffDelay(t.mode, t.attempt)
        ELSE /\ t.st = "done"
             /\ IsErrorTagged(t.result)
             /\ t.result.error = t.e

\* A send whose second attempt failed terminally sleeps before a third one.
C5_Witness ==
  \E i \in TaskIds :
    /\ Task(i).st = "sleeping"
    /\ Task(i).e \in TerminalKinds
    /\ Task(i).attempt = 1

\* C6: in both send paths the k-th delay (k = 0, 1, ...) is
\* retry_delay * 2^k, and no delay follows the last attempt.
C6_ExponentialBackoff ==
  \A i \in TaskIds :
    LET t == Task(i) IN
      /\ \A k \in 1..Len(t.delays) : t.delays[k] = retry_delay * Pow2(k - 1)
      /\ t.st = "done" => Len(t.delays) = t.attempt

\* C7: a request whose model is absent from the cost table makes no backend
\* attempt at all and is not retried.
C7_UnknownModelNoDispatch ==
  \A i \in TaskIds :
    Task(i).model \notin TOKEN_CONFIG =>
      /\ Task(i).st \notin {"inflight", "sleeping"}
      /\ ~Task(i).answered
      /\ Task(i).attempt = 0

(***************************************************************************)
(* Properties of a deliberation session, checked under Spec and FairSpec.  *)
(***************************************************************************)
Speakers == _get_speaking_agents(agents, engine_max_concurrent)

\* C2: whatever the completion order, the i-th response of a round is the
\* answer to the i-th prompt, and the i-th transcript entry of the round is
\* attributed to the i-th speaking agent and holds that agent's response.
C2_OrderPreserved ==
  /\ \A k \in 1..Len(conversation_history) :
       LET r == (k - 1) \div Len(Speakers)
           slot == ((k - 1) % Len(Speakers)) + 1
           e == conversation_history[k]
       IN /\ e.agent = Speakers[slot]
          /\ e.content.re =
               _create_agent_prompt(r, slot, Speakers[slot],
                                    SubSeq(conversation_history, 1, r * Len(Speakers)))
  /\ \A r \in 1..Len(results.rounds) :
       \A i \in 1..Len(results.rounds[r]) :
         /\ results.rounds[r][i].agent = Speakers[i]
         /\ results.rounds[r][i].response.re =
              _create_agent_prompt(r - 1, i, Speakers[i],
                                   SubSeq(conversation_history, 1, (r - 1) * Len(Speakers)))

\* The requests of the last processed round finished out of dispatch order
\* and its entries are in the transcript.
C2_Witness ==
  /\ reordered
  /\ Len(conversation_history) >= 2

\* C8: a request of a round is outstanding only while that round is the
\* active one, with the entries of all earlier rounds in the transcript and
\* their consensus checks done.
C8_RoundsNeverOverlap ==
  \A i \in TaskIds :
    LET t == Task(i) IN
      /\ t.st # "done" => pc \in {"ROUND_ACTIVE", "FINALIZING"}
      /\ t.prompt.kind = "agent" =>
           /\ t.prompt.round = round_num
           /\ t.st # "done" => pc = "ROUND_ACTIVE"
           /\ Len(conversation_history) = round_num * Len(speaking)
           /\ checks_done = round_num
      /\ t.prompt.kind = "final" => loop_exit # "none"

\* A second round is in flight.
C8_Witness ==
  /\ pc = "ROUND_ACTIVE"
  /\ round_num = 1
  /\ InFlight > 0

\* A step in which the gather of a round returns and the round is processed.
RoundProcessed == pc = "ROUND_ACTIVE" /\ checks_done' = checks_done + 1

\* C9: after a round the loop is left iff the consensus check on the updated
\* transcript is true or the round was number max_rounds; otherwise the next
\* round starts.  No more than max_rounds rounds are dispatched, and none
\* after the loop was left.
C9_LoopExit ==
  /\ [][RoundProcessed =>
          LET reached == _check_consensus(conversation_history', agents)
              last == round_num + 1 = max_rounds
          IN /\ reached =>
                  /\ loop_exit' = "break"
                  /\ pc' # "ROUND_ACTIVE"
             /\ (~reached /\ last) =>
                  /\ loop_exit' = "exhausted"
                  /\ pc' # "ROUND_ACTIVE"
             /\ (~reached /\ ~last) =>
                  /\ loop_exit' = "none"
                  /\ pc' = "ROUND_ACTIVE"
                  /\ round_num' = round_num + 1]_vars
  /\ [][loop_exit # "none" =>
          /\ loop_exit' = loop_exit
          /\ round_num' = round_num
          /\ pc' # "ROUND_ACTIVE"]_vars
  /\ [](pc = "ROUND_ACTIVE" => round_num < max_rounds)

\* Consensus ended the loop before max_rounds rounds were run.
C9_Witness ==
  /\ loop_exit = "break"
  /\ round_num + 1 < max_rounds

ResultComplete ==
  /\ results.final_consensus.kind = "generated"
  /\ results.performance_metrics.kind = "metrics"
  /\ Len(results.rounds) <= max_rounds

\* C10: with a non-empty roster and max_rounds >= 1 the session reaches DONE
\* with a complete result whatever fails, and is never aborted.
C10_ReachesDone ==
  /\ (Len(agents) >= 1 /\ max_rounds >= 1) ~> (pc = "DONE" /\ ResultComplete)
  /\ []((Len(agents) >= 1 /\ max_rounds >= 1) => pc # "RAISED")

\* A session is DONE in which every agent request and the finalization
\* request failed.
C10_Witness ==
  /\ pc = "DONE"
  /\ Len(conversation_history) >= 2
  /\ \A k \in 1..Len(conversation_history) :
       conversation_history[k].content.text = ErrorMarker
  /\ results.final_consensus.kind = "generated"
  /\ results.final_consensus.full_text = ErrorMarker

(***************************************************************************)
(* Properties of the result and the transcript, checked under Spec.        *)
(***************************************************************************)
\* The entries of the retained rounds, round after round.
RECURSIVE RetainedEntries(_)
RetainedEntries(rounds) ==
  IF rounds = <<>> THEN <<>>
  ELSE RetainedEntries(SubSeq(rounds, 1, Len(rounds) - 1)) \o
       [i \in 1..Len(rounds[Len(rounds)]) |->
          [agent |-> rounds[Len(rounds)][i].agent,
           content |-> rounds[Len(rounds)][i].response]]

\* C11: the returned result retains every executed round: results["rounds"]
\* is as long as the number of rounds dispatched, the consensus round
\* included, and the transcript is exactly the entries of the retained rounds.
C11_AllRoundsRetained ==
  pc = "DONE" =>
    /\ Len(results.rounds) = checks_done
    /\ RetainedEntries(results.rounds) = conversation_history

\* Some request of the active round has not returned yet.
RoundUnfinished ==
  /\ pc = "ROUND_ACTIVE"
  /\ \E i \in TaskIds : Task(i).st # "done"

\* C12: a request that failed after its last retry cancels nothing: while a
\* sibling is unfinished the round stays active with all its requests, a
\* finished request keeps its result, and when the round is processed one
\* entry per speaking agent is appended, holding that agent's own result (the
\* error marker for a failed one), and the consensus check is made.
C12_SiblingsNotCancelled ==
  /\ [][RoundUnfinished =>
          /\ pc' = "ROUND_ACTIVE"
          /\ round_num' = round_num
          /\ conversation_history' = conversation_history
          /\ Len(tasks') = Len(tasks)
          /\ \A i \in TaskIds :
               /\ Task(i).st = "done" => tasks'[i] = Task(i)
               /\ tasks'[i].prompt = Task(i).prompt]_vars
  /\ [][RoundProcessed =>
          /\ Len(conversation_history') = Len(conversation_history) + Len(speaking)
          /\ \A i \in 1..Len(speaking) :
               LET e == conversation_history'[Len(conversation_history) + i]
               IN /\ e.agent = speaking[i]
                  /\ e.content = Task(i).result.content
                  /\ IsErrorTagged(Task(i).result) => e.content.text = ErrorMarker]_vars
  /\ [](pc = "ROUND_ACTIVE" => Len(tasks) = Len(speaking))

\* The first request of a round has failed for good while its sibling is
\* still retrying.
C12_Witness ==
  /\ pc = "ROUND_ACTIVE"
  /\ Len(tasks) = 2
  /\ Task(1).st = "done"
  /\ IsErrorTagged(Task(1).result)
  /\ Task(2).st = "inflight"
  /\ Task(2).attempt >= 1

\* C13: the transcript is append-only: every step keeps the existing entries
\* in place, with their agent and content, and adds entries only at the end;
\* only the processing of a round's responses adds any, so neither the
\* consensus check nor the final-consensus generation changes the transcript.
C13_AppendOnly ==
  /\ [][/\ Len(conversation_history') >= Len(conversation_history)
        /\ SubSeq(conversation_history', 1, Len(conversation_history))
             = conversation_history]_vars
  /\ [][RoundProcessed =>
          Len(conversation_history') = Len(conversation_history) + Len(speaking)]_vars
  /\ [][~RoundProcessed => conversation_history' = conversation_history]_vars

\* A session is DONE after two rounds were appended, two consensus checks
\* were made and the final consensus was generated.
C13_Witness ==
  /\ pc = "DONE"
  /\ checks_done = 2
  /\ Len(conversation_history) = 4
  /\ results.final_consensus.kind = "generated"

(***************************************************************************)
(* Properties of consensus detection, checked under SpecConsensus.         *)
(***************************************************************************)
\* The agents that have an entry in the transcript.
AgentsWithEntry(history) == {history[k].agent : k \in 1..Len(history)}

\* C14: a consensus check on a transcript with entries of fewer than two
\* distinct agents returns false, whether the transcript is empty or one
\* agent spoke many times.
C14_FewerThanTwoAgentsNoConsensus ==
  (pc = "CHECKED" /\ Cardinality(AgentsWithEntry(conversation_history)) < 2)
    => ~consensus_reached

\* One agent of a larger roster spoke twice or more, every time with the
\* same key points, and the check has returned.
C14_Witness ==
  /\ pc = "CHECKED"
  /\ Len(agents) >= 2
  /\ Len(conversation_history) >= 2
  /\ \A k \in 1..Len(conversation_history) :
       /\ conversation_history[k].agent = 1
       /\ conversation_history[k].content.text = TextX

\* The last entry of an agent that has one.
LastEntryOf(history, agent) ==
  history[CHOOSE k \in 1..Len(history) :
            /\ history[k].agent = agent
            /\ \A m \in (k + 1)..Len(history) : history[m].agent # agent]

\* The sum of a sequence of rationals.
RECURSIVE RatSum(_)
RatSum(rats) == IF rats = <<>> THEN Rat(0, 1)
                ELSE RatAdd(RatSum(Tail(rats)), Head(rats))

\* The agreement score as a number: the mean Jaccard overlap of the pairs
\* of key points with words on both sides, 0 without such a pair.
ExactAgreementScore(points1, points2) ==
  LET compared == ComparedPairs(points1, points2)
  IN IF compared = <<>> THEN Rat(0, 1)
     ELSE RatDiv(RatSum([k \in 1..Len(compared) |->
                           Rat(Cardinality(points1[compared[k][1]]
                                           \cap points2[compared[k][2]]),
                               Cardinality(points1[compared[k][1]]
                                           \cup points2[compared[k][2]]))]),
                 Len(compared))

\* The mean of the agreement scores over all unordered pairs of the agents
\* with an entry, of which there are at least two.
ExactMeanAgreement(history) ==
  LET pairs == SetToSeq({p \in SUBSET AgentsWithEntry(history) : Cardinality(p) = 2})
      points(a) == _extract_agent_key_points(LastEntryOf(history, a).content)
      score(p) == LET a == CHOOSE x \in p : TRUE
                      b == CHOOSE y \in p : y # a
                  IN ExactAgreementScore(points(a), points(b))
  IN RatDiv(RatSum([k \in 1..Len(pairs) |-> score(pairs[k])]), Len(pairs))

\* C15: the consensus check returns true iff the mean of the agreement
\* scores over all unordered pairs of agents with a latest entry is strictly
\* greater than 0.8 and at least two of those agents have key points; a mean
\* of exactly 0.8 is not consensus.
C15_ConsensusIffMeanAboveThreshold ==
  pc = "CHECKED" =>
    (consensus_reached <=>
       /\ Cardinality(AgentsWithEntry(conversation_history)) >= 2
       /\ RatGreater(ExactMeanAgreement(conversation_history), Rat(4, 5))
       /\ Cardinality({a \in AgentsWithEntry(conversation_history) :
                         _extract_agent_key_points(
                           LastEntryOf(conversation_history, a).content) # <<>>}) >= 2)

(***************************************************************************)
(* Properties of the agreement score, checked under SpecConsensus on       *)
(* direct calls of _calculate_agreement_score.                             *)
(***************************************************************************)
\* C16: the agreement score is symmetric, lies in [0, 1], is 0 when either
\* key-point list is empty, and is 1.0 when both lists hold the same
\* non-empty word set.
C16_ScoreSymmetricBounded ==
  unit.step = "returned" =>
    /\ unit.score = _calculate_agreement_score(unit.points2, unit.points1)
    /\ ~FloatGreater(Zero, unit.score)
    /\ ~FloatGreater(unit.score, One)
    /\ (unit.points1 = <<>> \/ unit.points2 = <<>>) => unit.score = Zero
    /\ ( /\ unit.points1 # <<>>
         /\ unit.points2 # <<>>
         /\ \E words \in PointWords \ {{}} :
              /\ \A i \in 1..Len(unit.points1) : unit.points1[i] = words
              /\ \A i \in 1..Len(unit.points2) : unit.points2[i] = words )
       => unit.score = One

(***************************************************************************)
(* Properties of confidence extraction and of the final confidence,        *)
(* checked under SpecConsensus on the sessions whose second agent states a *)
(* confidence.                                                             *)
(***************************************************************************)
\* The confidence stored for the agent of entry k.
StoredConfidence(k) ==
  LET role == agents[conversation_history[k].agent]
  IN confidence_tracker[CHOOSE i \in 1..Len(confidence_tracker) :
                          confidence_tracker[i].role = role].confidence

\* The consensus check of a session has run.
SessionChecked == pc \in {"FINALIZING", "DONE"}

IsNumber(chars) == ParseFloat(chars).ok

\* The float of a number given by its sign and magnitude.
Signed(neg, magnitude) ==
  IF magnitude.hi = 0 THEN Zero ELSE [magnitude EXCEPT !.neg = neg]

\* A value brought into [0, 1].
Within01(x) ==
  IF FloatGreater(x, One) THEN One ELSE IF FloatGreater(Zero, x) THEN Zero ELSE x

\* What the text after "confidence:" stands for, where it is a ratio of two
\* numbers, a number followed by a percent sign, or a number.
IsRatio(chars) ==
  /\ Len(Split(chars, "/")) = 2
  /\ IsNumber(Split(chars, "/")[1])
  /\ IsNumber(Split(chars, "/")[2])
  /\ ParseFloat(Split(chars, "/")[2]).k # 0
RatioValue(chars) ==
  LET a == ParseFloat(Split(chars, "/")[1])
      b == ParseFloat(Split(chars, "/")[2])
  IN Signed(a.neg # b.neg, FloatDivInt(Signed(FALSE, FloatOf(a)), b.k))
IsPercentage(chars) ==
  /\ chars # <<>>
  /\ chars[Len(chars)] = "%"
  /\ IsNumber(SubSeq(chars, 1, Len(chars) - 1))
PercentageValue(chars) ==
  FloatDivInt(FloatOf(ParseFloat(SubSeq(chars, 1, Len(chars) - 1))), 100)
NumberValue(chars) ==
  LET x == FloatOf(ParseFloat(chars))
  IN IF FloatGreater(x, One) THEN FloatDivInt(x, 10) ELSE x

\* C17: the confidence stored for an agent is a/b for a ratio, NN/100 for a
\* percentage, number/10 for a number above 1, the number itself otherwise,
\* and 0.5 when "confidence:" is absent, always brought into [0, 1].
C17_ConfidenceMapping ==
  /\ \A i \in 1..Len(confidence_tracker) :
       /\ ~FloatGreater(Zero, confidence_tracker[i].confidence)
       /\ ~FloatGreater(confidence_tracker[i].confidence, One)
  /\ SessionChecked =>
       \A k \in 1..Len(conversation_history) :
         LET text == conversation_history[k].content.text
             chars == ConfidenceStrOf[text]
         IN IF text \notin ConfidenceTexts
            THEN StoredConfidence(k) = IntDiv(1, 2)
            ELSE /\ IsRatio(chars) => StoredConfidence(k) = Within01(RatioValue(chars))
                 /\ IsPercentage(chars) =>
                      StoredConfidence(k) = Within01(PercentageValue(chars))
                 /\ IsNumber(chars) => StoredConfidence(k) = Within01(NumberValue(chars))
                 /\ chars = <<"8", "/", "1", "0">> => StoredConfidence(k) = IntDiv(8, 10)
                 /\ chars = <<"9", "0", "%">> => StoredConfidence(k) = IntDiv(9, 10)
                 /\ chars = <<"3">> => StoredConfidence(k) = IntDiv(3, 10)
                 /\ chars = <<"0", ".", "5">> => StoredConfidence(k) = IntDiv(5, 10)
                 /\ chars \in {<<"1", "5">>, <<"1", "2", "0", "%">>} =>
                      StoredConfidence(k) = One
                 /\ chars \in {<<"-", "3">>, <<"-", "8", "/", "1", "0">>} =>
                      StoredConfidence(k) = Zero

\* The second agent stated "confidence: 120%", the check has run and the
\* stored value is the clamped one.
C17_Witness ==
  /\ pc = "FINALIZING"
  /\ conversation_history[2].content.text = ConfidenceText(<<"1", "2", "0", "%">>)
  /\ StoredConfidence(2) = One
  /\ StoredConfidence(1) = IntDiv(1, 2)

\* C18: when "confidence:" is present and the text after it is neither a
\* ratio (a zero denominator included), a percentage nor a number, the
\* agent's confidence is the default 0.5.
C18_ParseFailureDefault ==
  SessionChecked =>
    \A k \in 1..Len(conversation_history) :
      LET text == conversation_history[k].content.text
      IN ( /\ text \in ConfidenceTexts
           /\ ~IsRatio(ConfidenceStrOf[text])
           /\ ~IsPercentage(ConfidenceStrOf[text])
           /\ ~IsNumber(ConfidenceStrOf[text]) )
         => StoredConfidence(k) = IntDiv(1, 2)

\* The value of a confidence level the finalization response states.
LevelValue(level) ==
  CASE level = "high" -> IntDiv(9, 10)
    [] level = "medium" -> IntDiv(7, 10)
    [] level = "low" -> IntDiv(5, 10)

\* The finalization response states one confidence level.
StatesOneLevel(text) == MentionsConfidence(text) /\ Cardinality(LevelsIn(text)) = 1

C20_MemoryBounded == Len(memories) <= 2 * memory_size

\* More exchanges were completed than the log can hold, and the log is full.
C20_Witness ==
  /\ memory_size >= 1
  /\ request_counts > memory_size
  /\ Len(memories) = 2 * memory_size

\* The number of occurrences of x in entries.
Occurrences(entries, x) == Cardinality({i \in 1..Len(entries) : entries[i] = x})

\* The entries of appended that an update to kept has dropped.
Evicted(appended, kept) ==
  {appended[i] : i \in {j \in 1..Len(appended) :
                          Occurrences(appended, appended[j]) > Occurrences(kept, appended[j])}}

\* What C21 requires of the update that generate_response(prompt, text)
\* makes with the clock readings t1 and t2.
EvictionKeepsTopRanked(prompt, text, t1, t2) ==
  LET appended == memories \o NewMemories(prompt, text, t1, t2)
  IN Len(appended) > 2 * memory_size =>
       /\ Len(memories') = 2 * memory_size
       /\ \A i \in 1..Len(memories') :
            Occurrences(memories', memories'[i]) <= Occurrences(appended, memories'[i])
       /\ \A i \in 1..Len(memories') : \A e \in Evicted(appended, memories') :
            /\ ~FloatGreater(e.importance, memories'[i].importance)
            /\ e.importance = memories'[i].importance
                 => e.timestamp <= memories'[i].timestamp

\* C21: an update that pushes the log above 2 x memory_size leaves exactly
\* 2 x memory_size entries, all of them entries of the log before the trim,
\* and no evicted entry ranks above a retained one: none has a higher
\* importance, and none of equal importance is more recent.
C21_EvictionKeepsTopRanked ==
  [][\A prompt \in AgentPrompts, text \in AgentAnswers :
       \A t1 \in {clock, clock + 1} : \A t2 \in {t1, t1 + 1} :
         generate_response(prompt, text, t1, t2)
           => EvictionKeepsTopRanked(prompt, text, t1, t2)]_vars

\* The log was trimmed in favour of an older entry: it holds the urgent
\* answer of an earlier exchange and nothing of the latest response's time.
C21_Witness ==
  /\ memory_size >= 1
  /\ request_counts > memory_size
  /\ Len(memories) = 2 * memory_size
  /\ \E i \in 1..Len(memories) : memories[i].content = UrgentAnswer
  /\ \A i \in 1..Len(memories) : memories[i].timestamp < clock

\* The entries of s occur in t in the order they have in s.
RECURSIVE IsSubsequence(_, _)
IsSubsequence(s, t) ==
  IF s = <<>> THEN TRUE
  ELSE IF t = <<>> THEN FALSE
  ELSE IF Head(s) = Head(t) THEN IsSubsequence(Tail(s), Tail(t))
  ELSE IsSubsequence(s, Tail(t))

\* C22: after every memory update the log is in the order in which its
\* entries were appended, a prompt before its own response, also when
\* entries carry equal timestamps: the new log is the old one with the two
\* new entries behind it, less the entries dropped.
C22_AppendOrderKept ==
  [][\A prompt \in AgentPrompts, text \in AgentAnswers :
       \A t1 \in {clock, clock + 1} : \A t2 \in {t1, t1 + 1} :
         generate_response(prompt, text, t1, t2)
           => IsSubsequence(memories', memories \o NewMemories(prompt, text, t1, t2))]_vars

(***************************************************************************)
(* Properties of run_pipeline, checked under SpecPipeline.                 *)
(***************************************************************************)
\* No backend request was dispatched and no engine was constructed or run.
NothingDispatched ==
  /\ tasks = <<>>
  /\ request_counts = 0
  /\ request_times = 0
  /\ pc = "IDLE"
  /\ conversation_history = <<>>

\* C23 on the states: with require_confirmation, nothing is dispatched and
\* the engine is not invoked while run_pipeline has not passed the
\* confirmation, and a run_pipeline that returned "cancelled" has
\* dispatched nothing.
ConfirmationBlocks ==
  pipeline_args.require_confirmation =>
    /\ pipeline_pc \in {"START", "CONFIRM"} => NothingDispatched
    /\ pipeline_return.status = "cancelled" => NothingDispatched /\ pipeline_pc = "RETURNED"
    /\ pipeline_pc = "RUNNING" => inputs_read >= 1

\* C23 on the steps that read an answer: an engine is started only by an
\* affirmative answer, a negative answer makes run_pipeline return
\* "cancelled", and any other answer leaves it at the prompt with nothing
\* changed but the number of answers read.
AnswerDecides ==
  \A answer \in Answers :
    ReadAnswer(answer) =>
      /\ answer \in {"y", "YES"} <=> pipeline_pc' = "RUNNING"
      /\ answer \in {"n", "No"} <=>
           (pipeline_pc' = "RETURNED" /\ pipeline_return' = [status |-> "cancelled"])
      /\ answer \notin {"y", "YES", "n", "No"} <=>
           (pipeline_pc' = "CONFIRM" /\ UNCHANGED <<clientVars, engineVars, pipeline_return>>)
      /\ pc' # "IDLE" => answer \in {"y", "YES"}
      /\ tasks' = <<>> /\ request_counts' = 0

\* C23: when confirmation is required no backend request is dispatched and
\* the engine is not invoked before the user answers affirmatively; a
\* negative answer makes run_pipeline return status "cancelled" with zero
\* backend requests; any other input re-prompts without dispatching.
C23_ConfirmationGate ==
  [][ /\ ConfirmationBlocks'
      /\ AnswerDecides
      /\ (pipeline_args.require_confirmation /\ pipeline_pc \in {"START", "CONFIRM"}
            /\ pipeline_pc' = "RUNNING")
           => \E answer \in {"y", "YES"} : ReadAnswer(answer) ]_vars

\* The user answered something else first and then refused: run_pipeline
\* returned "cancelled" after two answers.
C23_Witness ==
  /\ pipeline_args.require_confirmation
  /\ pipeline_return = [status |-> "cancelled"]
  /\ inputs_read = 2
  /\ NothingDispatched

\* The role list run_autonomy_case works with.
RequestedRoles == IF pipeline_args.roles = NoRoles THEN DefaultRoles ELSE pipeline_args.roles

\* C24: a requested role identifier without a role definition aborts the
\* construction of the session before any request is dispatched and is
\* never dropped from the roster: once a manager exists, every requested
\* role has a definition and the roster is the requested list.
C24_UndefinedRoleAborts ==
  pc # "IDLE" =>
    /\ \A i \in 1..Len(RequestedRoles) : RequestedRoles[i] \in role_configs
    /\ agents = RequestedRoles

(***************************************************************************)
(* Properties of the speaking set and of finalization, checked under Spec. *)
(***************************************************************************)
\* C25: in every round the speaking set has exactly min(max_concurrent,
\* roster size) agents, taken in roster order from the first agent on, one
\* request each, and the speaking set of a round is that of the round before.
C25_SpeakingSet ==
  [][ /\ pc' = "ROUND_ACTIVE" =>
           /\ Len(speaking') = Min(engine_max_concurrent', Len(agents'))
           /\ \A i \in 1..Len(speaking') : speaking'[i] = i
           /\ Len(tasks') = Len(speaking')
      /\ (pc = "ROUND_ACTIVE" /\ pc' = "ROUND_ACTIVE") => speaking' = speaking ]_vars

\* The second round of a session whose cap is smaller than its roster.
C25_Witness ==
  /\ pc = "ROUND_ACTIVE"
  /\ round_num = 1
  /\ engine_max_concurrent < Len(agents)
  /\ speaking = <<1>>

\* The number of transcript entries of roster agent a.
EntriesOf(a) ==
  Cardinality({k \in 1..Len(conversation_history) : conversation_history[k].agent = a})

\* C26: the full roster speaks every round: every roster agent has one
\* transcript entry per round that was executed, so after the first round
\* each roster member has a latest entry.
C26_FullRosterSpeaks ==
  \A a \in 1..Len(agents) : EntriesOf(a) = checks_done

\* The requests in flight or finished that ask for the final consensus.
FinalRequests == {i \in 1..Len(tasks) : tasks[i].prompt = FinalPrompt}

\* C27 on the states: a finalization request exists only while
\* run_deliberation waits for it, and then it is the only request; a result
\* returned on an empty transcript carries the fixed consensus.
OneFinalRequest ==
  /\ pc = "FINALIZING" => Len(tasks) = 1 /\ FinalRequests = {1}
                            /\ conversation_history # <<>> /\ loop_exit # "none"
  /\ pc # "FINALIZING" => FinalRequests = {}
  /\ (pc = "DONE" /\ conversation_history = <<>>) =>
       /\ results.final_consensus.summary = "No deliberation occurred"
       /\ results.final_consensus.confidence = Zero
  /\ (pc = "DONE" /\ conversation_history # <<>>) =>
       results.final_consensus.kind = "generated"

\* C27: with a non-empty transcript exactly one finalization request is
\* issued, by the step that leaves the round loop on either exit, after that
\* step's transcript update and consensus check, and none is issued again;
\* with an empty transcript none is issued and the fixed "No deliberation
\* occurred" consensus with confidence 0.0 results.
C27_OneFinalization ==
  [][ /\ OneFinalRequest'
      /\ (loop_exit = "none" /\ loop_exit' # "none") =>
           /\ loop_exit' \in {"break", "exhausted"}
           /\ conversation_history' # <<>> =>
                /\ pc' = "FINALIZING"
                /\ checks_done' = checks_done + 1
                /\ consensus_reached' = _check_consensus(conversation_history', agents)
                /\ loop_exit' = "break" <=> consensus_reached'
           /\ conversation_history' = <<>> =>
                /\ pc' \in {"DONE", "RAISED"}
                /\ tasks' = <<>>
                /\ results'.final_consensus = EmptyFinalConsensus
      /\ (pc # "FINALIZING" /\ pc' = "FINALIZING") => loop_exit = "none"
      /\ pc \in {"FINALIZING", "DONE", "RAISED"} =>
           /\ conversation_history' = conversation_history
           /\ pc' \in {pc, "DONE", "RAISED"} ]_vars

\* The finalization request of a session that left the loop on consensus
\* has been answered and the result is complete.
C27_Witness ==
  /\ pc = "DONE"
  /\ loop_exit = "break"
  /\ conversation_history # <<>>
  /\ results.final_consensus.kind = "generated"

\* The members of a set of numbers, largest first.
RECURSIVE Descending(_)
Descending(S) ==
  IF S = {} THEN <<>>
  ELSE LET m == CHOOSE x \in S : \A y \in S : y <= x
       IN <<m>> \o Descending(S \ {m})

\* The positions of the entries that are the last one of their agent, in
\* the order in which a scan from the end of the transcript meets them.
LatestPerAgent(history) ==
  Descending({k \in 1..Len(history) :
                \A m \in (k + 1)..Len(history) : history[m].agent # history[k].agent})

\* C28: consensus detection compares, for each distinct agent that has
\* spoken, that agent's most recent entry and no older one, and two agents
\* of the same role are two participants: the check returns what the mean
\* agreement over the latest entries per agent yields.
C28_LatestEntryPerAgent ==
  pc = "CHECKED" =>
    (consensus_reached <=>
       /\ Len(LatestPerAgent(conversation_history)) >= 2
       /\ FloatGreater(
            AvgAgreement([i \in 1..Len(LatestPerAgent(conversation_history)) |->
              _extract_agent_key_points(
                conversation_history[LatestPerAgent(conversation_history)[i]].content)]),
            ConsensusThreshold))


(***************************************************************************)
(* Properties of the prompts of a round, checked under SpecLongSession.    *)
(***************************************************************************)
\* h is the last HistoryTail entries of H, or all of H if it has fewer.
IsTailOf(h, H) ==
  /\ Len(h) = Min(Len(H), HistoryTail)
  /\ \A j \in 1..Len(h) : h[j] = H[Len(H) - Len(h) + j]

\* While a round is active every prompt of it quotes the tail of the
\* transcript as it is now, and none of the quoted entries answers a prompt
\* of this round.
SameSnapshot ==
  pc = "ROUND_ACTIVE" =>
    \A i \in 1..Len(tasks) :
      /\ IsTailOf(tasks[i].prompt.history, conversation_history)
      /\ \A j \in 1..Len(tasks[i].prompt.history) :
           tasks[i].prompt.history[j].content.re.round < round_num

\* A step taken while a request of the round is unfinished leaves the
\* transcript as it is.
TranscriptUntouched ==
  (pc = "ROUND_ACTIVE" /\ ~gather_ready(tasks)) =>
    conversation_history' = conversation_history

\* C29: all prompts of a round quote the same transcript snapshot, taken
\* before any request of the round is dispatched and holding exactly the last
\* 5 entries (all of them if there are fewer); the transcript is not modified
\* while a request of the round is in flight, so no prompt holds a sibling's
\* response of the same round.
C29_PromptSnapshot == []SameSnapshot /\ [][TranscriptUntouched]_vars

\* A round of two requests on a transcript of more than HistoryTail entries,
\* one request answered and its sibling still in flight.
C29_Witness ==
  /\ pc = "ROUND_ACTIVE"
  /\ Len(conversation_history) > HistoryTail
  /\ Len(tasks) = 2
  /\ tasks[2].st = "done"
  /\ tasks[1].st = "inflight"


(***************************************************************************)
(* Properties of the recall of relevant memories, checked under SpecRecall.*)
(***************************************************************************)
\* The number of prompt words a memory shares, and the number of prompt words.
Shared(memory) ==
  Cardinality(Keywords(unit.prompt) \cap Keywords(memory.content))
PromptWords == Cardinality(Keywords(unit.prompt))

\* The memories a completed recall returned, in the order of its text.
Recalled == unit.returned.chosen

\* C30: the recall returns at most 3 memories, none with an overlap ratio
\* below 0.3, ordered by overlap descending; among memories of equal overlap
\* the more recent one comes first, and it is the one kept when the limit of
\* 3 cuts the list.
C30_RecallOrder ==
  (unit.step = "returned" /\ unit.returned.kind = "text") =>
    /\ Len(Recalled) <= 3
    /\ \A i \in 1..Len(Recalled) : 10 * Shared(Recalled[i]) >= 3 * PromptWords
    /\ \A i, j \in 1..Len(Recalled) :
         i < j => /\ Shared(Recalled[i]) >= Shared(Recalled[j])
                  /\ Shared(Recalled[i]) = Shared(Recalled[j]) =>
                       Recalled[i].timestamp > Recalled[j].timestamp
    /\ Len(Recalled) = 3 =>
         \A k \in 1..Len(memories), i \in 1..3 :
           (/\ \A j \in 1..3 : Recalled[j] # memories[k]
            /\ Shared(memories[k]) = Shared(Recalled[i]))
             => Recalled[i].timestamp > memories[k].timestamp


(***************************************************************************)
(* Properties of the client's counters, checked under SpecClient.          *)
(***************************************************************************)
\* The sends of the finished call that returned a tagged-error Response.
TaggedErrors == {i \in 1..Len(last_return) : IsErrorTagged(last_return[i])}

\* C31: after the sends of a client call have completed, request_counts is
\* the number of sends, whatever the number of attempts each needed,
\* len(request_times) equals request_counts, error_counts is the number of
\* sends that returned a tagged-error Response and is at most request_counts;
\* this includes sends answered with a model missing from the cost table.
C31_CountersMatchSends ==
  call.kind = "returned" =>
    /\ request_counts = call.n
    /\ request_times = request_counts
    /\ error_counts = Cardinality(TaggedErrors)
    /\ error_counts <= request_counts


(***************************************************************************)
(* Properties of the confirmation of a pipeline run, checked under         *)
(* SpecPipeline.                                                           *)
(***************************************************************************)
\* Outside the confirmation loop of run_pipeline no step reads an answer.
NoFurtherPrompt == pipeline_pc # "CONFIRM" => inputs_read' = inputs_read

\* The loop asks again exactly after an answer it does not recognise.
RepeatsOnlyUnrecognised ==
  \A answer \in Answers :
    ReadAnswer(answer) =>
      (pipeline_pc' = "CONFIRM" <=>
         ~(Affirmative(Lower(answer)) \/ Negative(Lower(answer))))

\* A run that needs no confirmation has read no answer; a run past its
\* confirmation has read at least one.
AskedAtTopLevel ==
  /\ ~pipeline_args.require_confirmation => inputs_read = 0
  /\ (pipeline_args.require_confirmation /\ pipeline_pc \notin {"START", "CONFIRM"})
       => inputs_read >= 1

\* C32: a pipeline run with confirmation required asks the user once, again
\* only after an unrecognised answer; after the affirmative answer neither the
\* engine's client nor make_parallel_requests reads another answer, whatever
\* the number of rounds and agents.
C32_ConfirmedOnce ==
  /\ []AskedAtTopLevel
  /\ [][NoFurtherPrompt /\ RepeatsOnlyUnrecognised]_vars

\* A confirmed run of two agents, a round and the finalization dispatched,
\* has returned its output after a single answer.
C32_Witness ==
  /\ pipeline_args.require_confirmation
  /\ pipeline_pc = "RETURNED"
  /\ pipeline_return.status = "output"
  /\ inputs_read = 1
  /\ Len(results.rounds) = 1
  /\ Len(agents) = 2
  /\ results.final_consensus # NoFinalConsensus


(***************************************************************************)
(* Properties of the reported metrics, checked under Spec.                 *)
(***************************************************************************)
\* The consensus_reached entry of the result's deliberation metrics.
ReportedConsensus == results.performance_metrics.consensus_reached

\* C33: the consensus_reached flag of the result is true iff the round loop
\* ended because the consensus check returned true on the final transcript;
\* it is false when the loop exhausted max_rounds, and it is what a fresh
\* consensus check on the final transcript returns.
C33_ReportedConsensus ==
  pc = "DONE" =>
    /\ ReportedConsensus <=> loop_exit = "break"
    /\ loop_exit = "exhausted" => ~ReportedConsensus
    /\ ReportedConsensus <=> _check_consensus(conversation_history, agents)

\* A session that broke out of its loop on consensus, and reports it.
C33_Witness ==
  /\ pc = "DONE"
  /\ loop_exit = "break"
  /\ ReportedConsensus
  /\ round_num + 1 < max_rounds


(***************************************************************************)
(* Properties of a repeated consensus check, checked under SpecConsensus.  *)
(***************************************************************************)
\* C38: a second consensus check on the transcript the first one read returns
\* the same boolean and leaves the confidence tracker with the contents the
\* first one left.
C38_CheckIdempotent ==
  pc \in {"CHECKED", "FINALIZING"} =>
    /\ _check_consensus(conversation_history, agents) = consensus_reached
    /\ TrackerAfterCheck(confidence_tracker, conversation_history, agents)
         = confidence_tracker

\* A check has found consensus between two agents and tracked a confidence
\* for each of them.
C38_Witness ==
  /\ pc = "CHECKED"
  /\ consensus_reached
  /\ Len(confidence_tracker) = 2
  /\ Len(conversation_history) = MaxTranscript


\* C34: the total_rounds entry of the result is the number of rounds the
\* session executed, for every roster size and every max_concurrent, a
\* max_concurrent below the roster size included.
C34_TotalRounds ==
  pc = "DONE" => results.performance_metrics.total_rounds = checks_done


\* C35: run_deliberation never raises, whatever the size of the roster; with
\* an empty roster it dispatches no request and still completes its result.
C35_EmptyRosterCompletes ==
  /\ pc # "RAISED"
  /\ agents = <<>> => tasks = <<>>


\* C36: with max_retries configured as 0 every send of a call still returns
\* a Response, a tagged-error one as no attempt succeeded, so the list that
\* send_many returns holds no None.
C36_ZeroRetriesReturnsResponse ==
  (max_retries = 0 /\ call.kind = "returned") =>
    /\ Len(last_return) = call.n
    /\ \A i \in 1..Len(last_return) : IsErrorTagged(last_return[i])


\* C37: no step of a session changes the memory log of a roster agent: the
\* rounds go through the engine's client, and no generate_response of an
\* agent, hence no append to a log and no eviction from it, takes place.
C37_AgentMemoryUntouched == [][UNCHANGED <<memories, memory_size, clock>>]_vars

\* A session of two rounds by two agents is complete and the memory log is
\* as empty as the construction of the agents left it.
C37_Witness ==
  /\ pc = "DONE"
  /\ Len(conversation_history) = 4
  /\ Len(agents) = 2
  /\ memories = <<>>


(***************************************************************************)
(* The number of backend attempts of a session, checked under Spec.        *)
(***************************************************************************)
\* max_retries x (max_rounds x min(max_concurrent, roster size) + 1)
AttemptBound ==
  max_retries * (max_rounds * Min(engine_max_concurrent, Len(agents)) + 1)

\* C39: the backend attempts of a session, those answered or failed and
\* those in flight, number at most max_retries x (max_rounds x
\* min(max_concurrent, roster size) + 1); a round issues one send per
\* speaking agent, the finalization at most one, and a send makes at most
\* max_retries attempts.
C39_AttemptsBounded ==
  /\ backend_attempts + InFlight <= AttemptBound
  /\ pc = "ROUND_ACTIVE" => Len(tasks) = Min(engine_max_concurrent, Len(agents))
  /\ pc = "FINALIZING" => Len(tasks) = 1
  /\ \A i \in 1..Len(tasks) : tasks[i].attempt < max_retries

\* A session of two rounds by two agents in which every attempt failed has
\* ended after exactly as many attempts as the bound allows.
C39_Witness ==
  /\ pc = "DONE"
  /\ max_retries = ConfigMaxRetries
  /\ max_rounds = MaxRounds
  /\ Len(agents) = 2
  /\ engine_max_concurrent = 2
  /\ backend_attempts = AttemptBound

====
